---- MODULE Spec2Model ----
(***************************************************************************)
(* Lendaswap client SDK: key-index counter, swap record store, swap        *)
(* lifecycle gating and recovery.                                          *)
(*                                                                         *)
(* The TypeScript layer (src/ts-sdk/src/api.ts) forwards every operation   *)
(* to the WASM client; the storage providers (DexieWalletStorageProvider,  *)
(* DexieSwapStorageProvider) are TypeScript.  The steps that run inside    *)
(* the WASM client are modelled from the design document and are marked    *)
(* "design" in the comments below; the steps that are TypeScript are       *)
(* marked with their source lines.                                         *)
(***************************************************************************)
EXTENDS Integers, Sequences, FiniteSets, TLC

\* ------------------------------------------------------------------ bounds
MaxIndex == 3          \* the counter is not advanced beyond this value
MaxIssued == 2         \* at most this many indices are handed out in one run
MaxTime == 2           \* the clock runs 0..MaxTime

Calls == {"c1", "c2"}            \* concurrently running asynchronous calls
SwapSeq == <<"s1", "s2">>        \* swap identifiers, in the order the backend hands them out
SwapIds == {SwapSeq[i] : i \in 1..Len(SwapSeq)}
Mnemonics == {"m1"}              \* seeds
RefundLocktimes == {1}           \* refund_locktime values the backend sets
Null == "null"

\* api.ts:123-136  SwapStatus: the recognized wire values
SwapStatusWithoutServerFunded ==
  {"pending", "clientfunded", "clientrefunded", "clientredeeming",
   "clientredeemed", "serverredeemed", "clientfundedserverrefunded",
   "clientrefundedserverfunded", "clientrefundedserverrefunded", "expired",
   "clientinvalidfunded", "clientfundedtoolate"}
SwapStatusWithoutTooLate ==
  {"pending", "clientfunded", "clientrefunded", "serverfunded", "clientredeeming",
   "clientredeemed", "serverredeemed", "clientfundedserverrefunded",
   "clientrefundedserverfunded", "clientrefundedserverrefunded", "expired",
   "clientinvalidfunded"}
SwapStatusWithoutInvalidFunded ==
  {"pending", "clientfunded", "clientrefunded", "serverfunded", "clientredeeming",
   "clientredeemed", "serverredeemed", "clientfundedserverrefunded",
   "clientrefundedserverfunded", "clientrefundedserverrefunded", "expired",
   "clientfundedtoolate"}
SwapStatusWithSettled ==
  {"pending", "clientfunded", "clientrefunded", "serverfunded", "clientredeeming",
   "clientredeemed", "serverredeemed", "clientfundedserverrefunded",
   "clientrefundedserverfunded", "clientrefundedserverrefunded", "expired",
   "clientinvalidfunded", "clientfundedtoolate", "settled"}
SwapStatus ==
  {"pending", "clientfunded", "clientrefunded", "serverfunded", "clientredeeming",
   "clientredeemed", "serverredeemed", "clientfundedserverrefunded",
   "clientrefundedserverfunded", "clientrefundedserverrefunded", "expired",
   "clientinvalidfunded", "clientfundedtoolate"}

VARIABLES
  walletRec,   \* the single WalletRecord of the wallet table (IndexedDB)
  swaps,       \* the swaps table (IndexedDB): swap id -> record or Null
  server,      \* the backend's swap history: swap id -> record or Null
  pc,          \* per call: where the call stands
  loc,         \* per call: its local variables
  lock,        \* holder of the index counter's mutex, or Null
  issued,      \* history: the indices returned by reserveNextIndex, in order
  now,         \* the clock
  lastEval,    \* the last evaluation of the lifecycle predicates
  hist,        \* history: what the recoveries that returned successfully did
  feed,        \* the PriceFeedService and the WebSockets it has created
  wasm         \* the WASM module of the process: initPromise and its callers

vars == <<walletRec, swaps, server, pc, loc, lock, issued, now, lastEval, hist, feed, wasm>>

\* ------------------------------------------------------- wallet storage
\* part_004:14-21  WalletRecord; a missing record is `undefined`
NoWalletRecord == [exists |-> FALSE, mnemonic |-> Null, keyIndex |-> 0]

\* part_004:107-112  getKeyIndex: record?.keyIndex ?? 0
KeyIndexOf(rec) == IF rec.exists THEN rec.keyIndex ELSE 0

\* part_004:79-84  getMnemonic: record?.mnemonic ?? null
MnemonicOf(rec) == IF rec.exists THEN rec.mnemonic ELSE Null

\* part_004:123-127  the record setKeyIndex puts, given what its get returned
SetKeyIndexWrongValue(existing, index) ==
  [exists |-> TRUE, mnemonic |-> MnemonicOf(existing), keyIndex |-> KeyIndexOf(existing)]
SetKeyIndexRecord(existing, index) ==
  [exists |-> TRUE, mnemonic |-> MnemonicOf(existing), keyIndex |-> index]

\* part_004:95-99  the record setMnemonic puts, given what its get returned
SetMnemonicRecord(existing, mnemonic) ==
  [exists |-> TRUE, mnemonic |-> mnemonic, keyIndex |-> KeyIndexOf(existing)]

\* ------------------------------------------------------------ derivation
\* design 4.1: derive(seed, index) -> SwapSecretBundle (api.ts:213-226 SwapParams)
NoBundle == [seed |-> Null, key_index |-> -1]
DeriveAtCounter(seed, index) == [seed |-> seed, key_index |-> KeyIndexOf(walletRec)]
DeriveIgnoringIndex(seed, index) == [seed |-> seed, key_index |-> 0]
Derive(seed, index) == [seed |-> seed, key_index |-> index]

\* api.ts:214-215  SwapParams.secret_key: the key of a bundle, one per derivation path
OwnSecretKey(bundle) == <<bundle.seed, bundle.key_index>>

\* design 4.1: derive is total over the supported indices and fails with
\* IndexOutOfRange beyond them, and with InvalidSeed without a usable seed
DeriveLimit == MaxIndex
IndexInRange(index) == index >= 0 /\ index < DeriveLimit
DeriveFails(seed, index) == seed = Null \/ ~IndexInRange(index)

\* ------------------------------------------------------------- call state
Max(a, b) == IF a >= b THEN a ELSE b

\* api.ts:232-236  ExtendedSwapStorageData {response, swap_params}; a missing row is null
NoResponse == [status |-> Null, refund_locktime |-> 0]
NoSwap == [exists |-> FALSE, response |-> NoResponse, swap_params |-> NoBundle]

\* part_003:14-16  SwapRecord: the stored row is the data plus its key `id`;
\* part_003:33  the table `swaps` is keyed by `id`
NoRow == [id |-> Null, exists |-> FALSE, response |-> NoResponse, swap_params |-> NoBundle]
EmptyTable == [s \in SwapIds |-> NoRow]
SwapRecordWithoutParams(response, bundle) ==
  [exists |-> TRUE, response |-> response, swap_params |-> NoBundle]
SwapRecord(response, bundle) == [exists |-> TRUE, response |-> response, swap_params |-> bundle]

\* api.ts:289-297  RecoveredSwap: what the backend keeps per swap (response + index);
\* a pruned swap is no longer listed in the identity's history
NoServerSwap == [exists |-> FALSE, seed |-> Null, index |-> -1, response |-> NoResponse,
                 pruned |-> FALSE]

\* api.ts:289  RecoveredSwap = GetSwapResponse & {index}; an id the response does not list
NoRecoveredSwap == [present |-> FALSE, index |-> -1, response |-> NoResponse]

\* api.ts:294-297  RecoverSwapsResponse {swaps, highest_index}, before any answer
NoRecoverSwapsResponse == [swaps |-> [s \in SwapIds |-> NoRecoveredSwap], highest_index |-> 0]

\* the swap store and the counter as a call found them
NoBefore == [swaps |-> EmptyTable, keyIndex |-> 0]

\* the local variables of a call that is not running
Idle == [op |-> "none", cur |-> -1, target |-> -1, existing |-> NoWalletRecord,
         idx |-> -1, bundle |-> NoBundle, arg |-> Null, id |-> Null,
         resp |-> NoResponse, rec |-> NoSwap, todo |-> {}, snapshot |-> NoRecoverSwapsResponse,
         gate |-> Null, at |-> 0, secret |-> NoBundle, handed |-> NoBundle,
         found |-> Null, ret |-> Null,
         before |-> NoBefore, nRes |-> 0, nDer |-> 0, nReq |-> 0,
         persistFailed |-> FALSE, sent |-> FALSE, stored |-> FALSE]

\* history of the recoveries that returned successfully: the key indices they
\* recovered and, in the runs that observe a single caller, the response the
\* last one got and the store and counter it left; nothing recovered yet
NoHist == [observe |-> FALSE, recovered |-> {},
           last |-> [valid |-> FALSE, response |-> NoRecoverSwapsResponse,
                     swaps |-> EmptyTable, keyIndex |-> 0]]

\* price-feed.ts:88-89  the first and the largest reconnect delay (ms)
InitialReconnectDelay == 1000
MaxReconnectDelay == 30000

\* the WebSockets that can be alive at once, and the subscribers' callbacks
MaxSockets == 2
Sockets == 1..MaxSockets
Callbacks == {"cbA", "cbB"}

\* price-feed.ts:85-90  a new PriceFeedService: no socket, no timer, no
\* listener.  ws = 0 is null; sock is the readyState of every WebSocket whose
\* handlers are attached; handles are the unsubscribe functions given out;
\* timers counts the setTimeout callbacks that are pending.  History: last is
\* the handler that ran last and what it found; closed tells that close() has
\* run and subscribe has not been called since; waited is the delay of the
\* reconnect timer that fired last, 0 when a socket has opened since; attempt
\* flips whenever connect() gets to create a WebSocket
NoFeedCall == [op |-> Null, ws |-> 0, readyState |-> "none",
               timer |-> FALSE, size |-> 0]
NoFeed == [ws |-> 0,
           reconnectTimer |-> FALSE,
           timerDelay |-> 0,
           listeners |-> {},
           reconnectDelay |-> InitialReconnectDelay,
           isManualClose |-> FALSE,
           sock |-> [i \in Sockets |-> "none"],
           handles |-> {},
           timers |-> 0,
           closed |-> FALSE,
           waited |-> 0,
           attempt |-> FALSE,
           last |-> NoFeedCall]

\* api.ts:19  initPromise is null when the module is loaded.  stage is where
\* the one initialisation stands, isNode the environment; inits counts the
\* calls of init, created the promises made; call is, per caller, what its
\* initWasm call has come to and the wasmPath it passed
WasmPaths == {Null, "custom.wasm"}
NoWasmCall == [st |-> "idle", wasmPath |-> Null]
NoWasm == [initPromise |-> Null, isNode |-> FALSE, usedPath |-> Null,
           inits |-> 0, created |-> 0,
           call |-> [c \in Calls |-> NoWasmCall]]

NoEval == [fn |-> Null, status |-> Null, now |-> 0, refund_locktime |-> 0, result |-> Null]

Init ==
  /\ walletRec = NoWalletRecord
  /\ swaps = EmptyTable
  /\ server = [s \in SwapIds |-> NoServerSwap]
  /\ pc = [c \in Calls |-> "idle"]
  /\ loc = [c \in Calls |-> Idle]
  /\ lock = Null
  /\ issued = <<>>
  /\ now = 0
  /\ lastEval = NoEval
  /\ hist = NoHist
  /\ feed = NoFeed
  /\ wasm = NoWasm

\* ---------------------------------------------------------------- helpers
\* the swap store and the counter as a starting call finds them (kept in the
\* runs that observe a single caller)
Found ==
  IF hist.observe THEN [swaps |-> swaps, keyIndex |-> KeyIndexOf(walletRec)] ELSE NoBefore

Goto(c, label) == pc' = [pc EXCEPT ![c] = label]
SetLoc(c, f, v) == loc' = [loc EXCEPT ![c][f] = v]
Finish(c) == /\ pc' = [pc EXCEPT ![c] = "idle"]
             /\ loc' = [loc EXCEPT ![c] = Idle]

\* ------------------------------------------------------- TypeScript client
\* api.ts:478 / 501 / 525: the wrapper awaits the WASM call with no catch of its
\* own: a rejection of the WASM call ends the wrapper's call with that error.
ClientRetriesOnError(c) == "reserve"
ClientOnWasmError(c) == "idle"

\* api.ts:474-535  Client.createArkadeToEvmSwap / createEvmToArkadeSwap /
\* createEvmToLightningSwap: hand the request to the WASM client
ClientCreate(c) ==
  /\ pc[c] = "idle"
  /\ Len(issued) < MaxIssued
  /\ pc' = [pc EXCEPT ![c] = "reserve"]
  /\ loc' = [loc EXCEPT ![c] = [Idle EXCEPT !.op = "create", !.before = Found]]
  /\ UNCHANGED <<walletRec, swaps, server, lock, issued, now, lastEval, hist, feed, wasm>>

\* tests/wallet.test.ts:61-97  Wallet.deriveSwapParams: reserve the next index, derive
WalletDeriveSwapParams(c) ==
  /\ pc[c] = "idle"
  /\ Len(issued) < MaxIssued
  /\ pc' = [pc EXCEPT ![c] = "reserve"]
  /\ loc' = [loc EXCEPT ![c] = [Idle EXCEPT !.op = "derive", !.before = Found]]
  /\ UNCHANGED <<walletRec, swaps, server, lock, issued, now, lastEval, hist, feed, wasm>>

\* ------------------------------------------- index counter (design 4.2, 5)
\* reserveNextIndex persists current + 1 and returns current
CounterSkipping(current) == current + 2
CounterAfter(current) == current + 1

\* reserveNextIndex, step 1: the scoped mutex is acquired and getKeyIndex
\* (part_004:107-112) reads the counter
ReserveRead(c) ==
  /\ pc[c] = "reserve"
  /\ lock = Null
  /\ KeyIndexOf(walletRec) < MaxIndex
  /\ lock' = c
  /\ loc' = [loc EXCEPT ![c].cur = KeyIndexOf(walletRec),
                        ![c].target = CounterAfter(KeyIndexOf(walletRec))]
  /\ Goto(c, "setIdxGet")
  /\ UNCHANGED <<walletRec, swaps, server, issued, now, lastEval, hist, feed, wasm>>

\* part_004:120-122  setKeyIndex, its get of the existing record
SetKeyIndexGet(c) ==
  /\ pc[c] = "setIdxGet"
  /\ SetLoc(c, "existing", walletRec)
  /\ Goto(c, "setIdxPut")
  /\ UNCHANGED <<walletRec, swaps, server, lock, issued, now, lastEval, hist, feed, wasm>>

\* part_004:123-127  setKeyIndex, its put of the new record
SetKeyIndexPut(c) ==
  /\ pc[c] = "setIdxPut"
  /\ walletRec' = SetKeyIndexRecord(loc[c].existing, loc[c].target)
  /\ Goto(c, "persisted")
  /\ UNCHANGED <<swaps, server, loc, lock, issued, now, lastEval, hist, feed, wasm>>

\* part_004:119-128  setKeyIndex rejects (the IndexedDB request failed): nothing is written
SetKeyIndexFail(c) ==
  /\ pc[c] \in {"setIdxGet", "setIdxPut"}
  /\ SetLoc(c, "persistFailed", TRUE)
  /\ Goto(c, "persistFailed")
  /\ UNCHANGED <<walletRec, swaps, server, lock, issued, now, lastEval, hist, feed, wasm>>

\* reserveNextIndex, last step: the mutex is released and `current` is returned
ReserveReturn(c) ==
  /\ pc[c] = "persisted"
  /\ loc[c].op \in {"create", "derive"}
  /\ lock' = Null
  /\ issued' = Append(issued, loc[c].cur)
  /\ loc' = [loc EXCEPT ![c].idx = loc[c].cur, ![c].nRes = loc[c].nRes + 1]
  /\ Goto(c, "derive")
  /\ UNCHANGED <<walletRec, swaps, server, now, lastEval, hist, feed, wasm>>

\* design 4.2, 7: a persistence failure leaves the critical section and is fatal
\* to the call in progress; the TypeScript wrapper passes the rejection on
ReserveAbort(c) ==
  /\ pc[c] = "persistFailed"
  /\ lock' = Null
  /\ IF ClientOnWasmError(c) = "idle"
       THEN Finish(c)
       ELSE /\ Goto(c, ClientOnWasmError(c))
            /\ UNCHANGED loc
  /\ UNCHANGED <<walletRec, swaps, server, issued, now, lastEval, hist, feed, wasm>>

\* ------------------------------------------ swap creation (design 2, 7)
\* the secret bundle is derived at the reserved index from the stored seed;
\* when the derivation fails the call is rejected with its error
DeriveBundle(c) ==
  /\ pc[c] = "derive"
  /\ IF DeriveFails(MnemonicOf(walletRec), loc[c].idx)
       THEN Goto(c, "deriveFailed") /\ UNCHANGED loc
       ELSE /\ loc' = [loc EXCEPT ![c].bundle = Derive(MnemonicOf(walletRec), loc[c].idx),
                                  ![c].nDer = loc[c].nDer + 1]
            /\ Goto(c, IF loc[c].op = "create" THEN "request" ELSE "wasmDone")
  /\ UNCHANGED <<walletRec, swaps, server, lock, issued, now, lastEval, hist, feed, wasm>>

\* the identifier the backend gives the next swap
FreshId ==
  LET free == {i \in 1..Len(SwapSeq) : ~server[SwapSeq[i]].exists}
  IN SwapSeq[CHOOSE i \in free : \A j \in free : i <= j]

\* the creation request reaches the backend, which records the swap and answers
BackendCreateSwap(c) ==
  /\ pc[c] = "request"
  /\ \E s \in SwapIds : ~server[s].exists
  /\ \E lt \in RefundLocktimes :
       LET resp == [status |-> "pending", refund_locktime |-> lt] IN
       /\ server' = [server EXCEPT ![FreshId] =
                       [exists |-> TRUE, seed |-> loc[c].bundle.seed,
                        index |-> loc[c].bundle.key_index, response |-> resp,
                        pruned |-> FALSE]]
       /\ loc' = [loc EXCEPT ![c].id = FreshId, ![c].resp = resp, ![c].sent = TRUE,
                             ![c].nReq = loc[c].nReq + 1]
  /\ Goto(c, "store")
  /\ UNCHANGED <<walletRec, swaps, lock, issued, now, lastEval, hist, feed, wasm>>

\* the creation request fails: the backend records no swap
BackendCreateFail(c) ==
  /\ pc[c] = "request"
  /\ loc' = [loc EXCEPT ![c].sent = TRUE, ![c].nReq = loc[c].nReq + 1]
  /\ Goto(c, "createFailed")
  /\ UNCHANGED <<walletRec, swaps, server, lock, issued, now, lastEval, hist, feed, wasm>>

\* api.ts:478 / 501 / 525: the WASM call rejected with the backend's or the
\* derivation's error; the wrapper passes the rejection on to the caller
CreateReject(c) ==
  /\ pc[c] \in {"createFailed", "deriveFailed"}
  /\ IF ClientOnWasmError(c) = "idle"
       THEN Finish(c)
       ELSE /\ Goto(c, ClientOnWasmError(c))
            /\ UNCHANGED loc
  /\ UNCHANGED <<walletRec, swaps, server, lock, issued, now, lastEval, hist, feed, wasm>>

\* part_003:90-92  store(swapId, data): put {id: swapId, ...data}
HasOwnId(data) == "id" \in DOMAIN data
RowOf(swapId, data) ==
  [id |-> IF HasOwnId(data) THEN data.id ELSE swapId,
   exists |-> TRUE, response |-> data.response, swap_params |-> data.swap_params]
SwapStorePutOnly(table, swapId, data) ==
  [s \in SwapIds |-> IF s = RowOf(swapId, data).id THEN RowOf(swapId, data) ELSE NoRow]
SwapStorePutMerging(table, swapId, data) ==
  [table EXCEPT ![RowOf(swapId, data).id] =
     IF @.exists THEN [RowOf(swapId, data) EXCEPT !.swap_params = table[RowOf(swapId, data).id].swap_params]
                 ELSE RowOf(swapId, data)]
SwapStorePut(table, swapId, data) ==
  [table EXCEPT ![RowOf(swapId, data).id] = RowOf(swapId, data)]

\* part_003:74-82  get(swapId): the row, or null
SwapStoreGet(table, swapId) ==
  IF table[swapId].exists
    THEN [exists |-> TRUE, response |-> table[swapId].response,
          swap_params |-> table[swapId].swap_params]
    ELSE NoSwap

\* part_003:99-101  delete(swapId)
SwapStoreDeleteAll(table, swapId) == EmptyTable
SwapStoreDelete(table, swapId) == [table EXCEPT ![swapId] = NoRow]

\* bundle and response are stored as one record before the call returns
StoreCreated(c) ==
  /\ pc[c] = "store"
  /\ swaps' = SwapStorePut(swaps, loc[c].id, SwapRecord(loc[c].resp, loc[c].bundle))
  /\ SetLoc(c, "stored", TRUE)
  /\ Goto(c, "wasmDone")
  /\ UNCHANGED <<walletRec, server, lock, issued, now, lastEval, hist, feed, wasm>>

\* api.ts:485-487 (and 509-511, 532-534): the WASM call resolved; the wrapper
\* returns the response to its caller.  Also the return of deriveSwapParams.
ClientReturn(c) ==
  /\ pc[c] = "wasmDone"
  /\ Finish(c)
  /\ UNCHANGED <<walletRec, swaps, server, lock, issued, now, lastEval, hist, feed, wasm>>

\* -------------------------------------------------------- storing a seed
\* tests/wallet.test.ts:50-59  Wallet.importMnemonic(m) -> setMnemonic(m)
WalletImportMnemonic(c, m) ==
  /\ pc[c] = "idle"
  /\ pc' = [pc EXCEPT ![c] = "setMnGet"]
  /\ loc' = [loc EXCEPT ![c] = [Idle EXCEPT !.op = "import", !.arg = m]]
  /\ UNCHANGED <<walletRec, swaps, server, lock, issued, now, lastEval, hist, feed, wasm>>

\* part_004:92-94  setMnemonic, its get of the existing record
SetMnemonicGet(c) ==
  /\ pc[c] = "setMnGet"
  /\ SetLoc(c, "existing", walletRec)
  /\ Goto(c, "setMnPut")
  /\ UNCHANGED <<walletRec, swaps, server, lock, issued, now, lastEval, hist, feed, wasm>>

\* part_004:95-99  setMnemonic, its put of the new record; importMnemonic
\* resolves to nothing, generateOrGetMnemonic to the phrase it stored
SetMnemonicPut(c) ==
  /\ pc[c] = "setMnPut"
  /\ walletRec' = SetMnemonicRecord(loc[c].existing, loc[c].arg)
  /\ SetLoc(c, "ret", IF loc[c].op = "generate" THEN loc[c].arg ELSE Null)
  /\ Goto(c, "wasmDone")
  /\ UNCHANGED <<swaps, server, lock, issued, now, lastEval, hist, feed, wasm>>

\* tests/wallet.test.ts:30-48  Wallet.generateOrGetMnemonic()
WalletGenerateOrGetMnemonic(c) ==
  /\ pc[c] = "idle"
  /\ pc' = [pc EXCEPT ![c] = "genGet"]
  /\ loc' = [loc EXCEPT ![c] = [Idle EXCEPT !.op = "generate"]]
  /\ UNCHANGED <<walletRec, swaps, server, lock, issued, now, lastEval, hist, feed, wasm>>

\* the phrases a generation can produce (random in the program)
GeneratedMnemonics == {"g1"}

\* the stored phrase is read (part_004:79-84); when there is one it is the
\* result, otherwise a new phrase is generated and stored with setMnemonic
GenerateAlways(found) == Null
GenerateFound(found) == found
GenerateGet(c) ==
  /\ pc[c] = "genGet"
  /\ IF GenerateFound(MnemonicOf(walletRec)) # Null
       THEN /\ loc' = [loc EXCEPT ![c].found = MnemonicOf(walletRec),
                                  ![c].ret = MnemonicOf(walletRec)]
            /\ Goto(c, "wasmDone")
       ELSE /\ \E g \in GeneratedMnemonics :
                 loc' = [loc EXCEPT ![c].found = MnemonicOf(walletRec), ![c].arg = g]
            /\ Goto(c, "setMnGet")
  /\ UNCHANGED <<walletRec, swaps, server, lock, issued, now, lastEval, hist, feed, wasm>>

\* tests/wallet.test.ts:50-59  Wallet.getMnemonic()
WalletGetMnemonic(c) ==
  /\ pc[c] = "idle"
  /\ pc' = [pc EXCEPT ![c] = "getMn"]
  /\ loc' = [loc EXCEPT ![c] = [Idle EXCEPT !.op = "getMnemonic"]]
  /\ UNCHANGED <<walletRec, swaps, server, lock, issued, now, lastEval, hist, feed, wasm>>

\* part_004:79-84  getMnemonic: the stored phrase, or null
GetMnemonicRead(c) ==
  /\ pc[c] = "getMn"
  /\ loc' = [loc EXCEPT ![c].found = MnemonicOf(walletRec), ![c].ret = MnemonicOf(walletRec)]
  /\ Goto(c, "wasmDone")
  /\ UNCHANGED <<walletRec, swaps, server, lock, issued, now, lastEval, hist, feed, wasm>>

\* ------------------------------------------- deriving at a given index
\* tests/wallet.test.ts:99-110  Wallet.deriveSwapParamsAtIndex(i)
WalletDeriveSwapParamsAtIndex(c, i) ==
  /\ pc[c] = "idle"
  /\ pc' = [pc EXCEPT ![c] = "deriveAt"]
  /\ loc' = [loc EXCEPT ![c] = [Idle EXCEPT !.op = "deriveAt", !.idx = i, !.before = Found]]
  /\ UNCHANGED <<walletRec, swaps, server, lock, issued, now, lastEval, hist, feed, wasm>>

\* design 4.1: derive has no side effects, the bookkeeping is the caller's
AtIndexAdvancesCounter(rec, i) == SetKeyIndexRecord(rec, i + 1)
AtIndexBookkeeping(rec, i) == rec

\* the bundle is derived from the stored seed at the given index; the counter
\* is neither read nor written
DeriveAtIndex(c) ==
  /\ pc[c] = "deriveAt"
  /\ walletRec' = AtIndexBookkeeping(walletRec, loc[c].idx)
  /\ IF DeriveFails(MnemonicOf(walletRec), loc[c].idx)
       THEN Goto(c, "deriveFailed") /\ UNCHANGED loc
       ELSE /\ loc' = [loc EXCEPT ![c].bundle = Derive(MnemonicOf(walletRec), loc[c].idx),
                                  ![c].nDer = @ + 1]
            /\ Goto(c, "wasmDone")
  /\ UNCHANGED <<swaps, server, lock, issued, now, lastEval, hist, feed, wasm>>

\* ------------------------------------------------------ crash and restart
\* the process ends: every call in flight and the mutex are gone; IndexedDB
\* and the backend keep their content; a new Client (api.ts:428-461) starts idle
CrashRestart ==
  /\ \E c \in Calls : pc[c] # "idle"
  /\ pc' = [c \in Calls |-> "idle"]
  /\ loc' = [c \in Calls |-> Idle]
  /\ lock' = Null
  /\ UNCHANGED <<walletRec, swaps, server, issued, now, lastEval, hist, feed, wasm>>

\* --------------------------------------------------- recovery (design 4.5)
\* api.ts:641-643  Client.recoverSwaps: hand the call to the WASM client
ClientRecoverSwaps(c) ==
  /\ pc[c] = "idle"
  /\ pc' = [pc EXCEPT ![c] = "recFetch"]
  /\ loc' = [loc EXCEPT ![c] = [Idle EXCEPT !.op = "recover",
                                            !.before = Found]]
  /\ UNCHANGED <<walletRec, swaps, server, lock, issued, now, lastEval, hist, feed, wasm>>

\* the swaps the backend lists for an identity
HistoryOf(history, seed) ==
  {s \in SwapIds : history[s].exists /\ history[s].seed = seed /\ ~history[s].pruned}

\* api.ts:294-297  RecoverSwapsResponse.highest_index: the highest index ever
\* associated with the identity (0 when there is none)
SetMax(S) == IF S = {} THEN 0 ELSE CHOOSE x \in S : \A y \in S : y <= x
HighestIndex(history, seed) ==
  SetMax({history[s].index : s \in {x \in SwapIds : history[x].exists /\ history[x].seed = seed}})

\* api.ts:289-297  the backend's answer to recoverSwaps for an identity
RecoverSwapsResponse(history, seed) ==
  [swaps |-> [s \in SwapIds |->
                IF s \in HistoryOf(history, seed)
                  THEN [present |-> TRUE, index |-> history[s].index,
                        response |-> history[s].response]
                  ELSE NoRecoveredSwap],
   highest_index |-> HighestIndex(history, seed)]

\* the backend answers the history-by-identity lookup
RecoverFetch(c) ==
  /\ pc[c] = "recFetch"
  /\ MnemonicOf(walletRec) # Null
  /\ loc' = [loc EXCEPT ![c].arg = MnemonicOf(walletRec),
                        ![c].snapshot = RecoverSwapsResponse(server, MnemonicOf(walletRec)),
                        ![c].todo = HistoryOf(server, MnemonicOf(walletRec))]
  /\ Goto(c, "recStore")
  /\ UNCHANGED <<walletRec, swaps, server, lock, issued, now, lastEval, hist, feed, wasm>>

\* the lookup fails, or no seed is loaded: the call is rejected
RecoverFetchFail(c) ==
  /\ pc[c] = "recFetch"
  /\ Goto(c, "recFailed")
  /\ UNCHANGED <<walletRec, swaps, server, loc, lock, issued, now, lastEval, hist, feed, wasm>>

\* the record recover writes for a returned swap: the bundle re-derived at the
\* recorded index, with the returned response
RecoveredRecordAtNextIndex(seed, swap) == SwapRecord(swap.response, Derive(seed, swap.index + 1))
RecoveredRecord(seed, swap) == SwapRecord(swap.response, Derive(seed, swap.index))

\* one returned swap is re-derived at its recorded index and stored (part_003:90-92)
RecoverStore(c) ==
  /\ pc[c] = "recStore"
  /\ \E s \in loc[c].todo :
       /\ swaps' = SwapStorePut(swaps, s, RecoveredRecord(loc[c].arg, loc[c].snapshot.swaps[s]))
       /\ SetLoc(c, "todo", loc[c].todo \ {s})
  /\ UNCHANGED <<walletRec, server, pc, lock, issued, now, lastEval, hist, feed, wasm>>

\* part_003:90-92  a store() of the scan rejects (the IndexedDB request failed):
\* that record is not written; the puts that were done before stay in the table
RecoverStoreFail(c) ==
  /\ pc[c] = "recStore"
  /\ loc[c].todo # {}
  /\ Goto(c, "recFailed")
  /\ UNCHANGED <<walletRec, swaps, server, loc, lock, issued, now, lastEval, hist, feed, wasm>>

\* api.ts:641-643  the WASM call rejected; the wrapper passes the rejection on
RecoverReject(c) ==
  /\ pc[c] = "recFailed"
  /\ Finish(c)
  /\ UNCHANGED <<walletRec, swaps, server, lock, issued, now, lastEval, hist, feed, wasm>>

\* setFloor(n): the value the counter is advanced to
SetFloorToN(current, n) == n
SetFloorPastN(current, n) == Max(current, n) + 1
SetFloorTarget(current, n) == Max(current, n)

\* setFloor(highest_index + 1), step 1: the mutex is acquired and the counter read
FloorRead(c) ==
  /\ pc[c] = "recStore"
  /\ loc[c].todo = {}
  /\ lock = Null
  /\ lock' = c
  /\ loc' = [loc EXCEPT ![c].cur = KeyIndexOf(walletRec),
                        ![c].target = SetFloorTarget(KeyIndexOf(walletRec),
                                                     loc[c].snapshot.highest_index + 1)]
  /\ Goto(c, "setIdxGet")
  /\ UNCHANGED <<walletRec, swaps, server, issued, now, lastEval, hist, feed, wasm>>

\* setFloor, last step: the mutex is released and recover returns
FloorReturn(c) ==
  /\ pc[c] = "persisted"
  /\ loc[c].op = "recover"
  /\ lock' = Null
  /\ hist' = [observe |-> hist.observe,
              recovered |-> hist.recovered \cup
                              {loc[c].snapshot.swaps[s].index :
                                 s \in {x \in SwapIds : loc[c].snapshot.swaps[x].present}},
              last |-> IF hist.observe
                         THEN [valid |-> TRUE, response |-> loc[c].snapshot,
                               swaps |-> swaps, keyIndex |-> KeyIndexOf(walletRec)]
                         ELSE hist.last]
  /\ Finish(c)
  /\ UNCHANGED <<walletRec, swaps, server, issued, now, lastEval, feed, wasm>>

\* the indices another installation of the seed may have used
ForeignIndices == {MaxIndex - 2}

\* another installation of the same seed created a swap at index i
BackendOtherDevice(m, i) ==
  /\ \E s \in SwapIds : ~server[s].exists
  /\ \A s \in SwapIds : server[s].exists => ~(server[s].seed = m /\ server[s].index = i)
  /\ server' = [server EXCEPT ![FreshId] =
                  [exists |-> TRUE, seed |-> m, index |-> i,
                   response |-> [status |-> "pending", refund_locktime |-> 1],
                   pruned |-> FALSE]]
  /\ UNCHANGED <<walletRec, swaps, pc, loc, lock, issued, now, lastEval, hist, feed, wasm>>

\* ------------------------------------------------- specification: indexing
\* swap creation, deriveSwapParams, recovery, crash and restart on one seed
\* the steps of swap creation and of deriveSwapParams
CreateNext ==
  \/ \E c \in Calls : ClientCreate(c)
  \/ \E c \in Calls : WalletDeriveSwapParams(c)
  \/ \E c \in Calls : ReserveRead(c)
  \/ \E c \in Calls : SetKeyIndexGet(c)
  \/ \E c \in Calls : SetKeyIndexPut(c)
  \/ \E c \in Calls : SetKeyIndexFail(c)
  \/ \E c \in Calls : ReserveReturn(c)
  \/ \E c \in Calls : ReserveAbort(c)
  \/ \E c \in Calls : DeriveBundle(c)
  \/ \E c \in Calls : BackendCreateSwap(c)
  \/ \E c \in Calls : BackendCreateFail(c)
  \/ \E c \in Calls : CreateReject(c)
  \/ \E c \in Calls : StoreCreated(c)
  \/ \E c \in Calls : ClientReturn(c)

\* the steps of recovery
RecoverNext ==
  \/ \E c \in Calls : ClientRecoverSwaps(c)
  \/ \E c \in Calls : RecoverFetch(c)
  \/ \E c \in Calls : RecoverFetchFail(c)
  \/ \E c \in Calls : RecoverStore(c)
  \/ \E c \in Calls : RecoverStoreFail(c)
  \/ \E c \in Calls : RecoverReject(c)
  \/ \E c \in Calls : FloorRead(c)
  \/ \E c \in Calls : FloorReturn(c)
  \/ \E i \in ForeignIndices : BackendOtherDevice("m1", i)

\* the steps of storing a seed
MnemonicNext ==
  \/ \E c \in Calls, m \in Mnemonics : WalletImportMnemonic(c, m)
  \/ \E c \in Calls : SetMnemonicGet(c)
  \/ \E c \in Calls : SetMnemonicPut(c)

IndexNext ==
  \/ CreateNext
  \/ RecoverNext
  \/ CrashRestart

\* the state after Client.create and client.init(): the seed is stored
\* (part_004:95-99 on an empty table), nothing else has run
IndexInit ==
  /\ walletRec = SetMnemonicRecord(NoWalletRecord, "m1")
  /\ swaps = EmptyTable
  /\ server = [s \in SwapIds |-> NoServerSwap]
  /\ pc = [c \in Calls |-> "idle"]
  /\ loc = [c \in Calls |-> Idle]
  /\ lock = Null
  /\ issued = <<>>
  /\ now = 0
  /\ lastEval = NoEval
  /\ hist = NoHist
  /\ feed = NoFeed
  /\ wasm = NoWasm

SpecIndex == IndexInit /\ [][IndexNext]_vars

\* ------------------------------------- specification: wallet with seed storing
\* everything above, from an empty IndexedDB, with seeds stored at any time
Next ==
  \/ CreateNext
  \/ MnemonicNext
  \/ CrashRestart

Spec == Init /\ [][Next]_vars

\* ------------------------------------------ lifecycle tracker (design 4.4)
\* the status strings the backend may put on the wire: the thirteen of the
\* protocol (design 4.4, 6) and strings that are none of them
UnknownWire == {"ServerFunded", "settled"}
WireStatus ==
  {"pending", "clientfunded", "serverfunded", "clientredeeming", "clientredeemed",
   "serverredeemed", "clientrefunded", "expired", "clientfundedserverrefunded",
   "clientrefundedserverfunded", "clientrefundedserverrefunded",
   "clientinvalidfunded", "clientfundedtoolate"} \cup UnknownWire

UnknownSwapStatus == "UnknownSwapStatus"

\* the recognized state a wire string stands for; unrecognized strings fail
ParseStatus(w) == IF w \in SwapStatus THEN w ELSE UnknownSwapStatus

\* the server-side leg is funded and the preimage may be revealed
canClaim(state) == state = "serverfunded"

\* the client's own leg is funded and its absolute timelock has expired
canRefund(state, t, refundLocktime) ==
  /\ state \in {"clientfunded", "clientfundedserverrefunded", "clientfundedtoolate"}
  /\ t >= refundLocktime

\* the tracker's answer for a wire string: "true", "false" or the failure
TrackerCanClaim(w) ==
  IF ParseStatus(w) = UnknownSwapStatus THEN UnknownSwapStatus
  ELSE IF canClaim(ParseStatus(w)) THEN "true" ELSE "false"

TrackerCanRefund(w, t, refundLocktime) ==
  IF ParseStatus(w) = UnknownSwapStatus THEN UnknownSwapStatus
  ELSE IF canRefund(ParseStatus(w), t, refundLocktime) THEN "true" ELSE "false"

\* ---------------------------------------------------------- status refresh
\* api.ts:571-573  Client.getSwap(id): hand the call to the WASM client
ClientGetSwap(c, s) ==
  /\ pc[c] = "idle"
  /\ pc' = [pc EXCEPT ![c] = "refFetch"]
  /\ loc' = [loc EXCEPT ![c] = [Idle EXCEPT !.op = "getSwap", !.id = s]]
  /\ UNCHANGED <<walletRec, swaps, server, lock, issued, now, lastEval, hist, feed, wasm>>

\* the backend answers getSwap(id) with the swap's response; the status it
\* reports is whatever the swap has reached by then
RefreshFetch(c, w) ==
  /\ pc[c] = "refFetch"
  /\ server[loc[c].id].exists
  /\ server' = [server EXCEPT ![loc[c].id].response.status = w]
  /\ SetLoc(c, "resp", [server[loc[c].id].response EXCEPT !.status = w])
  /\ Goto(c, "refGet")
  /\ UNCHANGED <<walletRec, swaps, lock, issued, now, lastEval, hist, feed, wasm>>

\* the backend does not know the swap, or the request fails: the call is rejected
RefreshFetchFail(c) ==
  /\ pc[c] = "refFetch"
  /\ Finish(c)
  /\ UNCHANGED <<walletRec, swaps, server, lock, issued, now, lastEval, hist, feed, wasm>>

\* the stored record is read (part_003:74-82) for its secret bundle
RefreshGet(c) ==
  /\ pc[c] = "refGet"
  /\ IF SwapStoreGet(swaps, loc[c].id).exists
       THEN /\ SetLoc(c, "bundle", SwapStoreGet(swaps, loc[c].id).swap_params)
            /\ Goto(c, "refPut")
       ELSE Finish(c)
  /\ UNCHANGED <<walletRec, swaps, server, lock, issued, now, lastEval, hist, feed, wasm>>

\* the record is stored again (part_003:90-92) with the response replaced wholesale
RefreshPut(c) ==
  /\ pc[c] = "refPut"
  /\ swaps' = SwapStorePut(swaps, loc[c].id, SwapRecord(loc[c].resp, loc[c].bundle))
  /\ pc' = [pc EXCEPT ![c] = "wasmDone"]
  /\ loc' = [loc EXCEPT ![c] = [Idle EXCEPT !.op = "getSwap", !.id = loc[c].id]]
  /\ UNCHANGED <<walletRec, server, lock, issued, now, lastEval, hist, feed, wasm>>

\* time passes
Tick ==
  /\ now < MaxTime
  /\ now' = now + 1
  /\ UNCHANGED <<walletRec, swaps, server, pc, loc, lock, issued, lastEval, hist, feed, wasm>>

\* --------------------------------------------------------- claim and refund
ChainOps == {"claimGelato", "claimVhtlc", "refundVhtlc"}

\* api.ts:590-592, 609-611, 619-621  Client.claimGelato / claimVhtlc /
\* refundVhtlc: hand the call to the WASM client
ClientClaimOrRefund(c, op, s) ==
  /\ pc[c] = "idle"
  /\ pc' = [pc EXCEPT ![c] = "lookup"]
  /\ loc' = [loc EXCEPT ![c] = [Idle EXCEPT !.op = op, !.id = s]]
  /\ UNCHANGED <<walletRec, swaps, server, lock, issued, now, lastEval, hist, feed, wasm>>

\* a preimage a caller may pass to claimGelato that is not the stored record's
CallerSecrets == {[seed |-> "caller", key_index |-> 0]}

\* api.ts:590-592  Client.claimGelato(swapId, secret): the optional secret is
\* handed to the WASM client with the swap id
ClientClaimGelatoWithSecret(c, s, secret) ==
  /\ pc[c] = "idle"
  /\ pc' = [pc EXCEPT ![c] = "lookup"]
  /\ loc' = [loc EXCEPT ![c] = [Idle EXCEPT !.op = "claimGelato", !.id = s, !.secret = secret]]
  /\ UNCHANGED <<walletRec, swaps, server, lock, issued, now, lastEval, hist, feed, wasm>>

\* the record is looked up (part_003:74-82); without a record the call is rejected
ClaimLookup(c) ==
  /\ pc[c] = "lookup"
  /\ IF SwapStoreGet(swaps, loc[c].id).exists
       THEN SetLoc(c, "rec", SwapStoreGet(swaps, loc[c].id)) /\ Goto(c, "gate")
       ELSE Finish(c)
  /\ UNCHANGED <<walletRec, swaps, server, lock, issued, now, lastEval, hist, feed, wasm>>

PermissionNotChecked(c, t) == "true"
\* the permission predicate of the call, on the record it looked up, at time t
Permission(c, t) ==
  IF loc[c].op = "refundVhtlc"
    THEN TrackerCanRefund(loc[c].rec.response.status, t, loc[c].rec.response.refund_locktime)
    ELSE TrackerCanClaim(loc[c].rec.response.status)

\* the secret of the call: the one the caller passed (api.ts:588-591), else the
\* bundle of the record the call looked up
ClaimSecretRederived(c) == Derive(MnemonicOf(walletRec), KeyIndexOf(walletRec))
ClaimSecret(c) ==
  IF loc[c].secret # NoBundle THEN loc[c].secret ELSE loc[c].rec.swap_params

\* the predicate gates the call: permitted, the secret is handed to the
\* chain-interaction collaborator; otherwise the call ends without it
ClaimGate(c) ==
  /\ pc[c] = "gate"
  /\ loc' = [loc EXCEPT ![c].gate = Permission(c, now), ![c].at = now,
                        ![c].handed = IF Permission(c, now) = "true"
                                        THEN ClaimSecret(c) ELSE NoBundle]
  /\ Goto(c, IF Permission(c, now) = "true" THEN "chain" ELSE "refused")
  /\ UNCHANGED <<walletRec, swaps, server, lock, issued, now, lastEval, hist, feed, wasm>>

\* the collaborator's call ends (done or failed), or the refusal is returned;
\* the caller may call again
ChainDone(c) ==
  /\ pc[c] \in {"chain", "refused"}
  /\ Finish(c)
  /\ UNCHANGED <<walletRec, swaps, server, lock, issued, now, lastEval, hist, feed, wasm>>

\* ------------------------------------------------- deleting stored swaps
\* part_003:115-117  clear(): the table is emptied
SwapStoreClear(table) == EmptyTable

\* api.ts:670-672  Client.deleteSwap(id): hand the call to the WASM client
ClientDeleteSwap(c, s) ==
  /\ pc[c] = "idle"
  /\ pc' = [pc EXCEPT ![c] = "delete"]
  /\ loc' = [loc EXCEPT ![c] = [Idle EXCEPT !.op = "deleteSwap", !.id = s]]
  /\ UNCHANGED <<walletRec, swaps, server, lock, issued, now, lastEval, hist, feed, wasm>>

\* the record of that id is deleted (part_003:99-101)
DeleteStored(c) ==
  /\ pc[c] = "delete"
  /\ swaps' = SwapStoreDelete(swaps, loc[c].id)
  /\ Goto(c, "wasmDone")
  /\ UNCHANGED <<walletRec, server, loc, lock, issued, now, lastEval, hist, feed, wasm>>

\* api.ts:663-665  Client.clearSwapStorage(): hand the call to the WASM client
ClientClearSwapStorage(c) ==
  /\ pc[c] = "idle"
  /\ pc' = [pc EXCEPT ![c] = "clear"]
  /\ loc' = [loc EXCEPT ![c] = [Idle EXCEPT !.op = "clearSwapStorage"]]
  /\ UNCHANGED <<walletRec, swaps, server, lock, issued, now, lastEval, hist, feed, wasm>>

\* every record is deleted (part_003:115-117)
ClearStored(c) ==
  /\ pc[c] = "clear"
  /\ swaps' = SwapStoreClear(swaps)
  /\ Goto(c, "wasmDone")
  /\ UNCHANGED <<walletRec, server, loc, lock, issued, now, lastEval, hist, feed, wasm>>

\* ------------------------------------------------------------- the backend
\* the backend drops a swap from the history it lists for the identity
BackendPrune(s) ==
  /\ server[s].exists
  /\ ~server[s].pruned
  /\ server' = [server EXCEPT ![s].pruned = TRUE]
  /\ UNCHANGED <<walletRec, swaps, pc, loc, lock, issued, now, lastEval, hist, feed, wasm>>

\* a swap moves on at the backend: its funding by the server is seen
BackendProgress(s) ==
  /\ server[s].exists
  /\ server[s].response.status = "pending"
  /\ server' = [server EXCEPT ![s].response.status = "serverfunded"]
  /\ UNCHANGED <<walletRec, swaps, pc, loc, lock, issued, now, lastEval, hist, feed, wasm>>

\* --------------------------------------------- specification: lifecycle
\* one call slot refreshes statuses while the other claims and refunds
Refresher == "c1"
Claimer == "c2"

LifeNext ==
  \/ \E s \in SwapIds : ClientGetSwap(Refresher, s)
  \/ \E w \in WireStatus : RefreshFetch(Refresher, w)
  \/ RefreshFetchFail(Refresher)
  \/ RefreshGet(Refresher)
  \/ RefreshPut(Refresher)
  \/ ClientReturn(Refresher)
  \/ Tick
  \/ \E op \in ChainOps, s \in SwapIds : ClientClaimOrRefund(Claimer, op, s)
  \/ \E s \in SwapIds, x \in CallerSecrets : ClientClaimGelatoWithSecret(Claimer, s, x)
  \/ ClaimLookup(Claimer)
  \/ ClaimGate(Claimer)
  \/ ChainDone(Claimer)

\* the state after one swap was created at index 0 and stored
CreatedResponse == [status |-> "pending", refund_locktime |-> 1]
LifeInit ==
  /\ walletRec = SetKeyIndexRecord(SetMnemonicRecord(NoWalletRecord, "m1"), 1)
  /\ swaps = SwapStorePut(EmptyTable, SwapSeq[1],
                          SwapRecord(CreatedResponse, Derive("m1", 0)))
  /\ server = [s \in SwapIds |-> IF s = SwapSeq[1]
                                   THEN [exists |-> TRUE, seed |-> "m1", index |-> 0,
                                         response |-> CreatedResponse, pruned |-> FALSE]
                                   ELSE NoServerSwap]
  /\ pc = [c \in Calls |-> "idle"]
  /\ loc = [c \in Calls |-> Idle]
  /\ lock = Null
  /\ issued = <<0>>
  /\ now = 0
  /\ lastEval = NoEval
  /\ hist = NoHist
  /\ feed = NoFeed
  /\ wasm = NoWasm

SpecLife == LifeInit /\ [][LifeNext]_vars

\* ------------------------------ specification: the predicates as functions
\* canClaim is evaluated on a wire string
EvalCanClaim(w) ==
  /\ lastEval' = [fn |-> "canClaim", status |-> w, now |-> 0, refund_locktime |-> 0,
                  result |-> TrackerCanClaim(w)]
  /\ UNCHANGED <<walletRec, swaps, server, pc, loc, lock, issued, now, hist, feed, wasm>>

\* canRefund is evaluated on a wire string, a time and a refund locktime
EvalCanRefund(w, t, lt) ==
  /\ lastEval' = [fn |-> "canRefund", status |-> w, now |-> t, refund_locktime |-> lt,
                  result |-> TrackerCanRefund(w, t, lt)]
  /\ UNCHANGED <<walletRec, swaps, server, pc, loc, lock, issued, now, hist, feed, wasm>>

PredNext ==
  \/ \E w \in WireStatus : EvalCanClaim(w)
  \/ \E w \in WireStatus, t \in 0..MaxTime, lt \in 0..MaxTime : EvalCanRefund(w, t, lt)

SpecPred == Init /\ [][PredNext]_vars

\* ------------------------------------ specification: recovery, one caller
\* one caller runs its operations one after another (creation, recovery,
\* deletion), while the backend moves on; crash and restart included
Caller == "c1"

RecoverSeqNext ==
  \/ ClientCreate(Caller)
  \/ ReserveRead(Caller)
  \/ SetKeyIndexGet(Caller)
  \/ SetKeyIndexPut(Caller)
  \/ SetKeyIndexFail(Caller)
  \/ ReserveReturn(Caller)
  \/ ReserveAbort(Caller)
  \/ DeriveBundle(Caller)
  \/ BackendCreateSwap(Caller)
  \/ BackendCreateFail(Caller)
  \/ CreateReject(Caller)
  \/ StoreCreated(Caller)
  \/ ClientReturn(Caller)
  \/ ClientRecoverSwaps(Caller)
  \/ RecoverFetch(Caller)
  \/ RecoverFetchFail(Caller)
  \/ RecoverStore(Caller)
  \/ RecoverStoreFail(Caller)
  \/ RecoverReject(Caller)
  \/ FloorRead(Caller)
  \/ FloorReturn(Caller)
  \/ \E s \in SwapIds : ClientDeleteSwap(Caller, s)
  \/ DeleteStored(Caller)
  \/ \E i \in ForeignIndices : BackendOtherDevice("m1", i)
  \/ BackendPrune(SwapSeq[1])
  \/ BackendProgress(SwapSeq[1])
  \/ CrashRestart

\* the state after client.init(), with the recoveries observed
RecoverSeqInit ==
  /\ walletRec = SetMnemonicRecord(NoWalletRecord, "m1")
  /\ swaps = EmptyTable
  /\ server = [s \in SwapIds |-> NoServerSwap]
  /\ pc = [c \in Calls |-> "idle"]
  /\ loc = [c \in Calls |-> Idle]
  /\ lock = Null
  /\ issued = <<>>
  /\ now = 0
  /\ lastEval = NoEval
  /\ hist = [NoHist EXCEPT !.observe = TRUE]
  /\ feed = NoFeed
  /\ wasm = NoWasm

SpecRecover == RecoverSeqInit /\ [][RecoverSeqNext]_vars

\* ------------------------------------------ specification: the swap store
\* one call slot creates swaps and refreshes their status while the other
\* claims, refunds, recovers, deletes and clears; crash and restart included
StoreNext ==
  \/ ClientCreate(Refresher)
  \/ ReserveRead(Refresher)
  \/ SetKeyIndexGet(Refresher)
  \/ SetKeyIndexPut(Refresher)
  \/ ReserveReturn(Refresher)
  \/ DeriveBundle(Refresher)
  \/ BackendCreateSwap(Refresher)
  \/ StoreCreated(Refresher)
  \/ \E s \in SwapIds : ClientGetSwap(Refresher, s)
  \/ RefreshFetch(Refresher, "serverfunded")
  \/ RefreshGet(Refresher)
  \/ RefreshPut(Refresher)
  \/ ClientReturn(Refresher)
  \/ \E op \in ChainOps, s \in SwapIds : ClientClaimOrRefund(Claimer, op, s)
  \/ \E s \in SwapIds, x \in CallerSecrets : ClientClaimGelatoWithSecret(Claimer, s, x)
  \/ ClaimLookup(Claimer)
  \/ ClaimGate(Claimer)
  \/ ChainDone(Claimer)
  \/ ClientRecoverSwaps(Claimer)
  \/ RecoverFetch(Claimer)
  \/ RecoverStore(Claimer)
  \/ RecoverStoreFail(Claimer)
  \/ RecoverReject(Claimer)
  \/ FloorRead(Claimer)
  \/ SetKeyIndexGet(Claimer)
  \/ SetKeyIndexPut(Claimer)
  \/ FloorReturn(Claimer)
  \/ \E s \in SwapIds : ClientDeleteSwap(Claimer, s)
  \/ DeleteStored(Claimer)
  \/ ClientClearSwapStorage(Claimer)
  \/ ClearStored(Claimer)
  \/ ClientReturn(Claimer)
  \/ CrashRestart

SpecStore == IndexInit /\ [][StoreNext]_vars

\* ------------------------------------ specification: the wallet, one caller
\* the phrases a caller imports
ImportedMnemonics == {"m1", "m2"}
\* the indices a caller asks deriveSwapParamsAtIndex for (the last is out of range)
AskedIndices == 0..DeriveLimit

\* one caller uses the wallet, one call after another, and nothing crashes:
\* deriveSwapParams, deriveSwapParamsAtIndex, the mnemonic calls
DeriveSeqNext ==
  \/ WalletDeriveSwapParams(Caller)
  \/ ReserveRead(Caller)
  \/ SetKeyIndexGet(Caller)
  \/ SetKeyIndexPut(Caller)
  \/ SetKeyIndexFail(Caller)
  \/ ReserveReturn(Caller)
  \/ ReserveAbort(Caller)
  \/ DeriveBundle(Caller)
  \/ \E i \in AskedIndices : WalletDeriveSwapParamsAtIndex(Caller, i)
  \/ DeriveAtIndex(Caller)
  \/ CreateReject(Caller)
  \/ WalletGenerateOrGetMnemonic(Caller)
  \/ GenerateGet(Caller)
  \/ \E m \in ImportedMnemonics : WalletImportMnemonic(Caller, m)
  \/ SetMnemonicGet(Caller)
  \/ SetMnemonicPut(Caller)
  \/ WalletGetMnemonic(Caller)
  \/ GetMnemonicRead(Caller)
  \/ ClientReturn(Caller)

\* tests/wallet.test.ts:61-66  a fresh wallet whose phrase has been stored
SpecDerive == RecoverSeqInit /\ [][DeriveSeqNext]_vars

\* one caller uses the wallet and creates swaps on a fresh storage, one call
\* after another; the process may crash and restart (a new wallet instance
\* over the same storage)
WalletSeqNext ==
  \/ ClientCreate(Caller)
  \/ WalletDeriveSwapParams(Caller)
  \/ ReserveRead(Caller)
  \/ SetKeyIndexGet(Caller)
  \/ SetKeyIndexPut(Caller)
  \/ ReserveReturn(Caller)
  \/ DeriveBundle(Caller)
  \/ BackendCreateSwap(Caller)
  \/ BackendCreateFail(Caller)
  \/ CreateReject(Caller)
  \/ StoreCreated(Caller)
  \/ \E i \in AskedIndices : WalletDeriveSwapParamsAtIndex(Caller, i)
  \/ DeriveAtIndex(Caller)
  \/ WalletGenerateOrGetMnemonic(Caller)
  \/ GenerateGet(Caller)
  \/ \E m \in Mnemonics : WalletImportMnemonic(Caller, m)
  \/ SetMnemonicGet(Caller)
  \/ SetMnemonicPut(Caller)
  \/ WalletGetMnemonic(Caller)
  \/ GetMnemonicRead(Caller)
  \/ ClientReturn(Caller)
  \/ CrashRestart

\* nothing is stored yet, the caller's calls are observed
WalletSeqInit ==
  /\ walletRec = NoWalletRecord
  /\ swaps = EmptyTable
  /\ server = [s \in SwapIds |-> NoServerSwap]
  /\ pc = [c \in Calls |-> "idle"]
  /\ loc = [c \in Calls |-> Idle]
  /\ lock = Null
  /\ issued = <<>>
  /\ now = 0
  /\ lastEval = NoEval
  /\ hist = [NoHist EXCEPT !.observe = TRUE]
  /\ feed = NoFeed
  /\ wasm = NoWasm

SpecWallet == WalletSeqInit /\ [][WalletSeqNext]_vars

\* ------------------- specification: the direction tag of a created swap
\* api.ts:163-202  the two directions of a swap
Directions == {"btc_to_evm", "evm_to_btc"}

\* api.ts:142-157  a response as a JavaScript object, with or without a
\* `direction` of the backend's own (fields: id, status, direction)
ResponseObjects ==
  [id : SwapIds, status : SwapStatus] \cup
  [id : SwapIds, status : SwapStatus, direction : Directions]

\* what a WASM creation call resolves to: a plain object or a Map of its entries
WasmValues ==
  {[kind |-> "object", entries |-> o] : o \in ResponseObjects} \cup
  {[kind |-> "map", entries |-> {<<f, o[f]>> : f \in DOMAIN o}] : o \in ResponseObjects}

\* api.ts:334  Object.fromEntries(map)
ObjectFromEntries(m) == [k \in {p[1] : p \in m} |-> (CHOOSE p \in m : p[1] = k)[2]]

\* api.ts:332-337  fromWasm
fromWasm(value) ==
  IF value.kind = "map" THEN ObjectFromEntries(value.entries) ELSE value.entries

\* api.ts:487 / 511 / 534  { ...obj, direction: tag }
KeepBackendDirection(obj, tag) ==
  [f \in DOMAIN obj \cup {"direction"} |->
     IF f \in DOMAIN obj THEN obj[f] ELSE tag]
WithDirection(obj, tag) ==
  [f \in DOMAIN obj \cup {"direction"} |-> IF f = "direction" THEN tag ELSE obj[f]]

\* api.ts:474-488  createArkadeToEvmSwap, from the resolved WASM call on
ClientCreateArkadeToEvmSwap(response) ==
  /\ lastEval' = [fn |-> "createArkadeToEvmSwap", arg |-> response,
                  result |-> WithDirection(fromWasm(response), "btc_to_evm")]
  /\ UNCHANGED <<walletRec, swaps, server, pc, loc, lock, issued, now, hist, feed, wasm>>

\* api.ts:497-512  createEvmToArkadeSwap, from the resolved WASM call on
ClientCreateEvmToArkadeSwap(response) ==
  /\ lastEval' = [fn |-> "createEvmToArkadeSwap", arg |-> response,
                  result |-> WithDirection(fromWasm(response), "evm_to_btc")]
  /\ UNCHANGED <<walletRec, swaps, server, pc, loc, lock, issued, now, hist, feed, wasm>>

\* api.ts:521-535  createEvmToLightningSwap, from the resolved WASM call on
ClientCreateEvmToLightningSwap(response) ==
  /\ lastEval' = [fn |-> "createEvmToLightningSwap", arg |-> response,
                  result |-> WithDirection(fromWasm(response), "evm_to_btc")]
  /\ UNCHANGED <<walletRec, swaps, server, pc, loc, lock, issued, now, hist, feed, wasm>>

DirectionNext ==
  \/ \E w \in WasmValues : ClientCreateArkadeToEvmSwap(w)
  \/ \E w \in WasmValues : ClientCreateEvmToArkadeSwap(w)
  \/ \E w \in WasmValues : ClientCreateEvmToLightningSwap(w)

SpecDirection == Init /\ [][DirectionNext]_vars

\* ------------------------- specification: the swap storage provider alone
\* api.ts:232-236  the records a caller hands to store()
StoredData ==
  {SwapRecord([status |-> st, refund_locktime |-> lt], Derive(m, i)) :
     st \in {"pending", "serverfunded"}, lt \in RefundLocktimes,
     m \in Mnemonics, i \in 0..1}

\* part_003:90-92  store(swapId, data) resolved
ProviderStore(swapId, data) ==
  /\ swaps' = SwapStorePut(swaps, swapId, data)
  /\ lastEval' = [fn |-> "store", id |-> swapId, data |-> data, before |-> swaps]
  /\ UNCHANGED <<walletRec, server, pc, loc, lock, issued, now, hist, feed, wasm>>

\* part_003:74-82  get(swapId) resolved
ProviderGet(swapId) ==
  /\ lastEval' = [fn |-> "get", id |-> swapId, result |-> SwapStoreGet(swaps, swapId)]
  /\ UNCHANGED <<walletRec, swaps, server, pc, loc, lock, issued, now, hist, feed, wasm>>

\* part_003:99-101  delete(swapId) resolved
ProviderDelete(swapId) ==
  /\ swaps' = SwapStoreDelete(swaps, swapId)
  /\ lastEval' = [fn |-> "delete", id |-> swapId, before |-> swaps]
  /\ UNCHANGED <<walletRec, server, pc, loc, lock, issued, now, hist, feed, wasm>>

\* part_003:115-117  clear() resolved
ProviderClear ==
  /\ swaps' = SwapStoreClear(swaps)
  /\ lastEval' = [fn |-> "clear", before |-> swaps]
  /\ UNCHANGED <<walletRec, server, pc, loc, lock, issued, now, hist, feed, wasm>>

ProviderNext ==
  \/ \E s \in SwapIds, d \in StoredData : ProviderStore(s, d)
  \/ \E s \in SwapIds : ProviderGet(s)
  \/ \E s \in SwapIds : ProviderDelete(s)
  \/ ProviderClear

SpecProvider == Init /\ [][ProviderNext]_vars

\* --------------- specification: the swap storage provider, rows stored back
\* part_003:124-126  getAll(): toArray(), the rows as they are stored, each
\* with its key `id`
SwapStoreGetAll(table) == {table[s] : s \in {x \in SwapIds : table[x].exists}}

\* part_003:14-16  the rows the table can hold
StoredRows == {RowOf(s, d) : s \in SwapIds, d \in StoredData}

\* part_003:124-126  getAll() resolved
ProviderGetAll ==
  /\ lastEval' = [fn |-> "getAll", result |-> SwapStoreGetAll(swaps)]
  /\ UNCHANGED <<walletRec, swaps, server, pc, loc, lock, issued, now, hist, feed, wasm>>

\* part_003:90-92  store(swapId, row) resolved, row being one of the rows the
\* getAll() before it returned
ProviderStoreRow(swapId, row) ==
  /\ lastEval.fn = "getAll"
  /\ row \in lastEval.result
  /\ swaps' = SwapStorePut(swaps, swapId, row)
  /\ lastEval' = [fn |-> "store", id |-> swapId, data |-> row, before |-> swaps]
  /\ UNCHANGED <<walletRec, server, pc, loc, lock, issued, now, hist, feed, wasm>>

RowsNext ==
  \/ ProviderNext
  \/ ProviderGetAll
  \/ \E s \in SwapIds, row \in StoredRows : ProviderStoreRow(s, row)

SpecRows == Init /\ [][RowsNext]_vars

\* ------------------------------------------ specification: the price feed
\* every method and every event handler of the service runs to its end before
\* the next one starts (one JavaScript thread)
Min(a, b) == IF a <= b THEN a ELSE b

\* the readyState of the current socket
ReadyStateOf(f) == IF f.ws = 0 THEN "none" ELSE f.sock[f.ws]

\* what a handler finds when it starts
FeedCall(f, op, cb) ==
  [op |-> op, ws |-> f.ws, readyState |-> ReadyStateOf(f),
   timer |-> f.reconnectTimer, size |-> Cardinality(f.listeners)]

\* a WebSocket object not in use
FreeSocket(f) == CHOOSE i \in Sockets : f.sock[i] = "none" /\ \A j \in Sockets : f.sock[j] = "none" => i <= j
HasFreeSocket(f) == \E i \in Sockets : f.sock[i] = "none"

\* price-feed.ts:204-219  scheduleReconnect: nothing when a timer is pending,
\* otherwise a timer of reconnectDelay
scheduleReconnectAlways(f) ==
  [f EXCEPT !.reconnectTimer = TRUE, !.timerDelay = f.reconnectDelay, !.timers = @ + 1]
scheduleReconnect(f) ==
  IF f.reconnectTimer THEN f
  ELSE [f EXCEPT !.reconnectTimer = TRUE, !.timerDelay = f.reconnectDelay,
                 !.timers = @ + 1]

\* price-feed.ts:188 / 195  reconnect only with listeners and not after a manual close
ShouldReconnectWithListeners(f) == f.listeners # {}
ShouldReconnectNever(f) == FALSE
ShouldReconnect(f) == f.listeners # {} /\ ~f.isManualClose

\* price-feed.ts:148-199  connect: nothing when the current socket is OPEN;
\* otherwise a new WebSocket becomes the current one, or, when its
\* constructor throws, a reconnect is scheduled
connect(f, throws) ==
  IF ReadyStateOf(f) = "open" THEN f
  ELSE LET g == [f EXCEPT !.isManualClose = FALSE, !.attempt = ~@] IN
       IF throws
         THEN IF ShouldReconnect(g) THEN scheduleReconnect(g) ELSE g
         ELSE [g EXCEPT !.ws = FreeSocket(f), !.sock[FreeSocket(f)] = "connecting"]

\* the call reaches `new WebSocket` and that needs an object
CanConnect(f, throws) == ReadyStateOf(f) = "open" \/ throws \/ HasFreeSocket(f)

\* price-feed.ts:224-236  close
closeLeavingTimer(f) ==
  LET g == [f EXCEPT !.isManualClose = TRUE] IN
  IF g.ws # 0 THEN [g EXCEPT !.sock[g.ws] = "closing", !.ws = 0] ELSE g
close(f) ==
  LET g == [f EXCEPT !.isManualClose = TRUE, !.reconnectTimer = FALSE, !.timerDelay = 0,
                     !.timers = IF f.reconnectTimer THEN @ - 1 ELSE @] IN
  IF g.ws # 0 THEN [g EXCEPT !.sock[g.ws] = "closing", !.ws = 0] ELSE g

\* price-feed.ts:113-119  subscribe(callback)
FeedSubscribe(cb, throws) ==
  LET f == [feed EXCEPT !.listeners = @ \cup {cb}, !.handles = @ \cup {cb},
                        !.closed = FALSE,
                        !.last = FeedCall(feed, "subscribe", cb)] IN
  /\ IF f.ws = 0 \/ ReadyStateOf(f) # "open"
       THEN CanConnect(f, throws) /\ feed' = connect(f, throws)
       ELSE ~throws /\ feed' = f
  /\ UNCHANGED <<walletRec, swaps, server, pc, loc, lock, issued, now, lastEval, hist, wasm>>

\* price-feed.ts:122-128  the function subscribe(callback) returned is called
FeedUnsubscribe(cb) ==
  LET f == [feed EXCEPT !.listeners = @ \ {cb},
                        !.last = FeedCall(feed, "unsubscribe", cb)] IN
  /\ cb \in feed.handles
  /\ feed' = IF f.listeners = {} THEN [close(f) EXCEPT !.closed = TRUE] ELSE f
  /\ UNCHANGED <<walletRec, swaps, server, pc, loc, lock, issued, now, lastEval, hist, wasm>>

\* price-feed.ts:224-236  close() called from outside
FeedClose ==
  /\ feed' = close([feed EXCEPT !.closed = TRUE, !.last = FeedCall(feed, "close", Null)])
  /\ UNCHANGED <<walletRec, swaps, server, pc, loc, lock, issued, now, lastEval, hist, wasm>>

\* price-feed.ts:157-161  onopen of the socket i
SocketOpened(i) ==
  /\ feed.sock[i] = "connecting"
  /\ feed' = [feed EXCEPT !.sock[i] = "open",
                          !.reconnectDelay = InitialReconnectDelay,
                          !.waited = 0,
                          !.last = FeedCall(feed, "onopen", Null)]
  /\ UNCHANGED <<walletRec, swaps, server, pc, loc, lock, issued, now, lastEval, hist, wasm>>

\* price-feed.ts:183-191  onclose of the socket i: closed by the server, by
\* the network, or after close()
SocketClosed(i) ==
  LET f == [feed EXCEPT !.sock[i] = "none", !.ws = 0,
                        !.last = FeedCall(feed, "onclose", Null)] IN
  /\ feed.sock[i] \in {"connecting", "open", "closing"}
  /\ feed' = IF ShouldReconnect(f) THEN scheduleReconnect(f) ELSE f
  /\ UNCHANGED <<walletRec, swaps, server, pc, loc, lock, issued, now, lastEval, hist, wasm>>

\* price-feed.ts:210-218  the reconnect timer fires
ReconnectTimerFires(throws) ==
  LET f == [feed EXCEPT !.reconnectTimer = FALSE, !.timerDelay = 0,
                        !.timers = @ - 1, !.waited = feed.timerDelay,
                        !.last = FeedCall(feed, "timer", Null)]
      g == connect(f, throws) IN
  /\ feed.timers > 0
  /\ CanConnect(f, throws)
  /\ ReadyStateOf(f) = "open" => ~throws
  /\ feed' = [g EXCEPT !.reconnectDelay = Min(g.reconnectDelay * 2, MaxReconnectDelay)]
  /\ UNCHANGED <<walletRec, swaps, server, pc, loc, lock, issued, now, lastEval, hist, wasm>>

FeedNext ==
  \/ \E cb \in Callbacks, throws \in BOOLEAN : FeedSubscribe(cb, throws)
  \/ \E cb \in Callbacks : FeedUnsubscribe(cb)
  \/ FeedClose
  \/ \E i \in Sockets : SocketOpened(i)
  \/ \E i \in Sockets : SocketClosed(i)
  \/ \E throws \in BOOLEAN : ReconnectTimerFires(throws)

SpecFeed == Init /\ [][FeedNext]_vars

\* the price feed with one subscriber, while close() is not called from
\* outside; a pending timer fires in the end (setTimeout)
Subscriber == "cbA"

FeedLiveNext ==
  \/ \E throws \in BOOLEAN : FeedSubscribe(Subscriber, throws)
  \/ FeedUnsubscribe(Subscriber)
  \/ \E i \in Sockets : SocketOpened(i)
  \/ \E i \in Sockets : SocketClosed(i)
  \/ \E throws \in BOOLEAN : ReconnectTimerFires(throws)

SpecFeedLive ==
  /\ Init
  /\ [][FeedLiveNext]_vars
  /\ WF_vars(\E throws \in BOOLEAN : ReconnectTimerFires(throws))

\* ------------------------------------- specification: WASM initialisation
\* api.ts:30  `if (initPromise)`
PromiseCachedOnceSettled(w) == w.initPromise = "fulfilled"
PromiseCached(w) == w.initPromise # Null

\* api.ts:34-69  the body of the initialisation up to its first await that
\* leaves the thread: in the browser without a path init() is called at once
\* (api.ts:66-68), otherwise the file is loaded first (api.ts:41-65)
StartInitialisation(w, wasmPath) ==
  IF ~w.isNode /\ wasmPath = Null
    THEN [w EXCEPT !.initPromise = "initialising", !.inits = @ + 1,
                   !.created = @ + 1, !.usedPath = wasmPath]
    ELSE [w EXCEPT !.initPromise = "loading", !.created = @ + 1, !.usedPath = wasmPath]

\* api.ts:29-73  initWasm(wasmPath), up to the promise it returns; also the
\* call made by Client.create (api.ts:436)
InitWasm(c, wasmPath) ==
  /\ wasm.call[c].st = "idle"
  /\ wasm' = [(IF PromiseCached(wasm) THEN wasm ELSE StartInitialisation(wasm, wasmPath))
                EXCEPT !.call[c] = [st |-> "awaiting", wasmPath |-> wasmPath]]
  /\ UNCHANGED <<walletRec, swaps, server, pc, loc, lock, issued, now, lastEval, hist, feed>>

\* api.ts:58-60 / 64-65  the file has been read: init(wasmBuffer) is called
WasmFileRead ==
  /\ wasm.initPromise = "loading"
  /\ wasm' = [wasm EXCEPT !.initPromise = "initialising", !.inits = @ + 1]
  /\ UNCHANGED <<walletRec, swaps, server, pc, loc, lock, issued, now, lastEval, hist, feed>>

\* api.ts:42-58 / 63-64  an import or readFile rejects: the promise rejects
WasmFileFails ==
  /\ wasm.initPromise = "loading"
  /\ wasm' = [wasm EXCEPT !.initPromise = "rejected"]
  /\ UNCHANGED <<walletRec, swaps, server, pc, loc, lock, issued, now, lastEval, hist, feed>>

\* api.ts:60 / 65 / 68  init resolves or rejects, and the promise with it
WasmInitSettles(outcome) ==
  /\ wasm.initPromise = "initialising"
  /\ wasm' = [wasm EXCEPT !.initPromise = outcome]
  /\ UNCHANGED <<walletRec, swaps, server, pc, loc, lock, issued, now, lastEval, hist, feed>>

\* api.ts:31 / 72  the promise a caller got settles as initPromise has
InitWasmSettles(c) ==
  /\ wasm.call[c].st = "awaiting"
  /\ wasm.initPromise \in {"fulfilled", "rejected"}
  /\ wasm' = [wasm EXCEPT !.call[c].st = wasm.initPromise]
  /\ UNCHANGED <<walletRec, swaps, server, pc, loc, lock, issued, now, lastEval, hist, feed>>

\* the caller goes on, and may call initWasm again
InitWasmCallerDone(c) ==
  /\ wasm.call[c].st \in {"fulfilled", "rejected"}
  /\ wasm' = [wasm EXCEPT !.call[c] = NoWasmCall]
  /\ UNCHANGED <<walletRec, swaps, server, pc, loc, lock, issued, now, lastEval, hist, feed>>

WasmNext ==
  \/ \E c \in Calls, wasmPath \in WasmPaths : InitWasm(c, wasmPath)
  \/ WasmFileRead
  \/ WasmFileFails
  \/ \E outcome \in {"fulfilled", "rejected"} : WasmInitSettles(outcome)
  \/ \E c \in Calls : InitWasmSettles(c)
  \/ \E c \in Calls : InitWasmCallerDone(c)

\* a process in Node.js or in a browser, the module just loaded
WasmInit ==
  /\ walletRec = NoWalletRecord
  /\ swaps = EmptyTable
  /\ server = [s \in SwapIds |-> NoServerSwap]
  /\ pc = [c \in Calls |-> "idle"]
  /\ loc = [c \in Calls |-> Idle]
  /\ lock = Null
  /\ issued = <<>>
  /\ now = 0
  /\ lastEval = NoEval
  /\ hist = NoHist
  /\ feed = NoFeed
  /\ \E node \in BOOLEAN : wasm = [NoWasm EXCEPT !.isNode = node]

SpecWasm == WasmInit /\ [][WasmNext]_vars

\* ================================================================= claims

\* C1: over creations, deriveSwapParams calls, recoveries, crashes and restarts
\* on one seed no key index is returned by reserveNextIndex twice, and every
\* index returned is at most the one returned last.
C1_NoIndexIssuedTwice ==
  /\ \A i, j \in 1..Len(issued) : i # j => issued[i] # issued[j]
  /\ \A i \in 1..Len(issued) : issued[i] <= issued[Len(issued)]

\* two indices were handed out with one skipped in between
C1_Witness ==
  /\ Len(issued) >= 2
  /\ \E k \in 1..(Len(issued) - 1) : issued[k + 1] > issued[k] + 1

\* the calls that went through reserveNextIndex and have read the counter
HasRead(c) == loc[c].op \in {"create", "derive"} /\ loc[c].cur # -1

\* C2: two creation / deriveSwapParams calls in flight together never read the
\* same pre-increment counter value and never hold the same index.
C2_ConcurrentCallsDistinct ==
  \A c, d \in Calls :
    (c # d /\ HasRead(c) /\ HasRead(d)) =>
      /\ loc[c].cur # loc[d].cur
      /\ (loc[c].idx # -1 /\ loc[d].idx # -1) => loc[c].idx # loc[d].idx

\* two creation calls are in flight, both past their read of the counter
C2_Witness ==
  \E c, d \in Calls :
    /\ c # d /\ HasRead(c) /\ HasRead(d)
    /\ loc[c].op = "create" /\ loc[d].op = "create"
    /\ pc[c] = "request" /\ pc[d] \in {"setIdxPut", "persisted"}

\* C3: current+1 is persisted before current is returned: once the persist step
\* of a reservation of i is done, and for every i ever returned, the persisted
\* counter is at least i+1, crash and restart included.
C3_PersistedBeforeReturned ==
  /\ \A k \in 1..Len(issued) : KeyIndexOf(walletRec) >= issued[k] + 1
  /\ \A c \in Calls :
       (pc[c] = "persisted" /\ loc[c].op \in {"create", "derive"}) =>
         KeyIndexOf(walletRec) >= loc[c].cur + 1

\* index 0 was persisted as used and lost in a crash; the next call got index 1
C3_Witness ==
  /\ issued = <<1>>
  /\ \A s \in SwapIds : ~server[s].exists
  /\ \E c \in Calls : pc[c] = "derive" /\ loc[c].idx = 1

\* C4: the persisted key-index counter never decreases, whatever operation runs.
C4_CounterNeverDecreases ==
  [][KeyIndexOf(walletRec') >= KeyIndexOf(walletRec)]_vars

\* C5: when the persist step of reserveNextIndex fails, the call ends with the
\* error: it derives no bundle, sends no creation request and stores no record.
C5_PersistFailureAborts ==
  [][\A c \in Calls :
       /\ loc'[c].persistFailed =>
            /\ loc'[c].bundle = NoBundle
            /\ ~loc'[c].sent
            /\ ~loc'[c].stored
       /\ pc[c] = "persistFailed" =>
            \/ pc'[c] = "persistFailed"
            \/ pc'[c] = "idle" /\ loc'[c] = Idle]_vars

\* the persist step of a creation call has failed
C5_Witness ==
  \E c \in Calls : pc[c] = "persistFailed" /\ loc[c].op = "create" /\ loc[c].persistFailed

\* the call of c is with the chain-interaction collaborator
AtCollaborator(c) == pc[c] = "chain"

\* C6: a claim or refund reaches the chain-interaction collaborator only when
\* the lifecycle predicate permits it for the status of the record the call
\* looked up: canClaim for claimGelato / claimVhtlc, canRefund (at the time of
\* the hand-over) for refundVhtlc.
C6_ChainCallsAreGated ==
  \A c \in Calls :
    AtCollaborator(c) =>
      /\ loc[c].op \in {"claimGelato", "claimVhtlc"} =>
           loc[c].rec.response.status = "serverfunded"
      /\ loc[c].op = "refundVhtlc" =>
           /\ loc[c].rec.response.status \in
                {"clientfunded", "clientfundedserverrefunded", "clientfundedtoolate"}
           /\ loc[c].at >= loc[c].rec.response.refund_locktime

\* a refund is with the collaborator after a refresh stored a refundable status
C6_Witness ==
  \E c \in Calls :
    /\ AtCollaborator(c)
    /\ loc[c].op = "refundVhtlc"
    /\ loc[c].rec.response.status = "clientfundedserverrefunded"

\* the twelve recognized states other than serverfunded
OtherTwelve ==
  {"pending", "clientfunded", "clientredeeming", "clientredeemed", "serverredeemed",
   "clientrefunded", "expired", "clientfundedserverrefunded",
   "clientrefundedserverfunded", "clientrefundedserverrefunded",
   "clientinvalidfunded", "clientfundedtoolate"}

\* C7: canClaim is true for serverfunded and false for each of the other
\* twelve recognized states.
C7_CanClaimTable ==
  lastEval.fn = "canClaim" =>
    /\ lastEval.status = "serverfunded" => lastEval.result = "true"
    /\ lastEval.status \in OtherTwelve => lastEval.result = "false"

\* canClaim was evaluated on serverfunded
C7_Witness ==
  lastEval.fn = "canClaim" /\ lastEval.status = "serverfunded" /\ lastEval.result = "true"

\* the three states in which the client's own leg is funded
ClientLegFunded == {"clientfunded", "clientfundedserverrefunded", "clientfundedtoolate"}

\* C8: canRefund(state, now, refundLocktime) is true exactly when state is
\* clientfunded, clientfundedserverrefunded or clientfundedtoolate and
\* now >= refundLocktime, and false otherwise, for every recognized state.
C8_CanRefundTable ==
  (lastEval.fn = "canRefund" /\ lastEval.status \in OtherTwelve \cup {"serverfunded"}) =>
    lastEval.result =
      IF lastEval.status \in ClientLegFunded /\ lastEval.now >= lastEval.refund_locktime
        THEN "true" ELSE "false"

\* canRefund was evaluated on clientfundedtoolate at the locktime itself
C8_Witness ==
  /\ lastEval.fn = "canRefund"
  /\ lastEval.status = "clientfundedtoolate"
  /\ lastEval.now = lastEval.refund_locktime
  /\ lastEval.result = "true"

\* the composite and anomaly states
CompositeOrAnomaly ==
  {"clientfundedserverrefunded", "clientrefundedserverfunded",
   "clientrefundedserverrefunded", "clientinvalidfunded", "clientfundedtoolate"}

\* C9 as stated: canClaim and canRefund are both false for every composite and
\* anomaly state, for every now and refundLocktime.
C9_Original ==
  lastEval.status \in CompositeOrAnomaly => lastEval.result = "false"

\* C9 as amended: for every composite and anomaly state canClaim is false;
\* canRefund is false for clientrefundedserverfunded,
\* clientrefundedserverrefunded and clientinvalidfunded at every time, and for
\* clientfundedserverrefunded and clientfundedtoolate it is false exactly while
\* now < refundLocktime.
C9_CompositeStates ==
  lastEval.status \in CompositeOrAnomaly =>
    /\ lastEval.fn = "canClaim" => lastEval.result = "false"
    /\ lastEval.fn = "canRefund" =>
         lastEval.result =
           IF /\ lastEval.status \in {"clientfundedserverrefunded", "clientfundedtoolate"}
              /\ lastEval.now >= lastEval.refund_locktime
             THEN "true" ELSE "false"

\* canRefund was evaluated on a composite state before its locktime
C9_Witness ==
  /\ lastEval.fn = "canRefund"
  /\ lastEval.status = "clientfundedserverrefunded"
  /\ lastEval.now < lastEval.refund_locktime
  /\ lastEval.result = "false"

\* C10: for a status string outside the thirteen recognized values the tracker
\* fails with UnknownSwapStatus, so neither predicate yields true, and a claim
\* or refund whose record carries such a status never reaches the collaborator.
C10_UnknownStatusFailsClosed ==
  \A c \in Calls :
    (loc[c].rec.exists /\ loc[c].rec.response.status \notin OtherTwelve \cup {"serverfunded"}) =>
      /\ ~AtCollaborator(c)
      /\ loc[c].gate \in {Null, UnknownSwapStatus}

\* a call on a swap whose stored status is unrecognized ended with UnknownSwapStatus
C10_Witness ==
  \E c \in Calls :
    /\ pc[c] = "refused"
    /\ loc[c].gate = UnknownSwapStatus
    /\ loc[c].rec.response.status = "ServerFunded"
    /\ swaps[loc[c].id].response.status = "ServerFunded"

\* the call of c is a recovery that has its answer from the backend
Recovering(c) == loc[c].op = "recover" /\ pc[c] \notin {"idle", "recFetch", "recFailed"}

\* the record recover is to hold for the returned swap s of the call c
IsRecoveredRecord(rec, c, s) ==
  /\ rec.exists
  /\ rec.response = loc[c].snapshot.swaps[s].response
  /\ rec.swap_params = [seed |-> MnemonicOf(walletRec),
                        key_index |-> loc[c].snapshot.swaps[s].index]

\* the ids the backend returned to the call c
Returned(c) == {s \in SwapIds : loc[c].snapshot.swaps[s].present}

\* C11: for every swap the backend returns, recover writes under its id a full
\* record whose bundle is derive(seed, recorded keyIndex) and whose response is
\* the returned one, overwriting a local copy; once the scan is over every
\* returned swap has such a record; no step of a recovery issues an index.
C11_RecoverWritesDerivedRecords ==
  [][\A c \in Calls :
       /\ (Recovering(c) /\ pc'[c] = "recStore" /\ loc'[c].todo # loc[c].todo) =>
            \E s \in loc[c].todo :
              /\ loc'[c].todo = loc[c].todo \ {s}
              /\ IsRecoveredRecord(swaps'[s], c, s)
       /\ (Recovering(c) /\ pc[c] # "recStore") =>
            \A s \in Returned(c) : IsRecoveredRecord(swaps[s], c, s)
       /\ (loc[c].op = "recover" /\ pc[c] # "idle") => issued' = issued]_vars

\* a recovery has overwritten a local copy whose response was out of date
C11_Witness ==
  \E c \in Calls :
    /\ loc[c].op = "recover" /\ pc[c] = "persisted"
    /\ \E s \in Returned(c) :
         /\ loc[c].before.swaps[s].exists
         /\ loc[c].before.swaps[s].response.status = "pending"
         /\ swaps[s].response.status = "serverfunded"

\* C12: when setFloor of a recovery has persisted, the counter is the larger of
\* the value setFloor found and highest_index + 1; setFloor runs only after every
\* returned record has been written; every index reserved after a recovery
\* returned is greater than the key index of every swap that recovery returned.
C12_RecoverRaisesCounter ==
  [][/\ \A c \in Calls :
          (loc[c].op = "recover" /\ pc[c] = "persisted") =>
            KeyIndexOf(walletRec) =
              IF loc[c].cur >= loc[c].snapshot.highest_index + 1
                THEN loc[c].cur ELSE loc[c].snapshot.highest_index + 1
     /\ \A c \in Calls :
          (loc[c].op = "recover" /\ pc[c] \in {"setIdxGet", "setIdxPut", "persisted"}) =>
            /\ loc[c].todo = {}
            /\ \A s \in Returned(c) :
                 /\ swaps[s].exists
                 /\ swaps[s].swap_params.key_index = loc[c].snapshot.swaps[s].index
     /\ issued' # issued =>
          \A r \in hist.recovered : issued'[Len(issued')] > r]_vars

\* a recovery returned a swap of index 1 made elsewhere, and the next index
\* reserved here was 2
C12_Witness ==
  /\ 1 \in hist.recovered
  /\ Len(issued) >= 1
  /\ issued[Len(issued)] = 2

\* C13: recover is all-or-nothing: when a backend or storage call of it has
\* failed, the swap store and the counter are as they were before the call.
C13_RecoverAllOrNothing ==
  \A c \in Calls :
    (loc[c].op = "recover" /\ pc[c] \in {"recFailed", "persistFailed"}) =>
      /\ swaps = loc[c].before.swaps
      /\ KeyIndexOf(walletRec) = loc[c].before.keyIndex

\* C14: no step of a recovery changes a local record whose id is absent from
\* the backend's response: it is neither deleted nor modified.
C14_RecoverKeepsLocalOnly ==
  [][\A c \in Calls :
       (loc[c].op = "recover" /\ pc[c] \notin {"idle", "recFetch"}) =>
         \A s \in SwapIds \ Returned(c) : swaps'[s] = swaps[s]]_vars

\* a recovery wrote a returned swap while a record the backend no longer lists
\* is in the store
C14_Witness ==
  \E c \in Calls :
    /\ loc[c].op = "recover" /\ pc[c] = "persisted"
    /\ \E s \in SwapIds \ Returned(c) : swaps[s].exists /\ server[s].pruned
    /\ \E s \in Returned(c) : ~loc[c].before.swaps[s].exists

\* the call of c is a recovery that directly follows a recovery that got the
\* same response: it found the store and the counter as that one left them
SecondRun(c) ==
  /\ loc[c].op = "recover" /\ pc[c] = "persisted"
  /\ hist.last.valid
  /\ hist.last.response = loc[c].snapshot
  /\ loc[c].before.swaps = hist.last.swaps
  /\ loc[c].before.keyIndex = hist.last.keyIndex

\* C15: a recovery run directly after a recovery, against the same backend
\* response, leaves the store content and the counter as the first run left them.
C15_RecoverIdempotent ==
  \A c \in Calls :
    SecondRun(c) =>
      /\ swaps = hist.last.swaps
      /\ KeyIndexOf(walletRec) = hist.last.keyIndex

\* a second run against a response of one swap made elsewhere at index 1
C15_Witness ==
  \E c \in Calls :
    /\ SecondRun(c)
    /\ \E s \in Returned(c) : loc[c].snapshot.swaps[s].index = 1
    /\ hist.last.keyIndex = 2

\* C16: when a creation call has its response to return, the store holds under
\* the response's swap id one record with that response and the bundle derived
\* at the index reserved for the call.
C16_StoredBeforeReturned ==
  \A c \in Calls :
    (loc[c].op = "create" /\ pc[c] = "wasmDone") =>
      /\ loc[c].id \in SwapIds
      /\ swaps[loc[c].id].exists
      /\ swaps[loc[c].id].response = loc[c].resp
      /\ swaps[loc[c].id].swap_params = [seed |-> MnemonicOf(walletRec), key_index |-> loc[c].idx]
      /\ loc[c].idx = loc[c].cur
      /\ \E k \in 1..Len(issued) : issued[k] = loc[c].idx

\* the second creation, at index 1, has its response to return
C16_Witness ==
  \E c \in Calls :
    /\ loc[c].op = "create" /\ pc[c] = "wasmDone"
    /\ loc[c].idx = 1
    /\ swaps[loc[c].id].swap_params.key_index = 1

\* C17: a creation call reserves one index, derives one bundle and sends one
\* request; when the backend's createSwap has failed the call ends with the
\* error and does nothing more.
C17_OneIndexPerCreation ==
  [][\A c \in Calls :
       /\ loc[c].op = "create" =>
            /\ loc[c].nRes <= 1 /\ loc[c].nDer <= 1 /\ loc[c].nReq <= 1
            /\ pc[c] \in {"request", "store", "wasmDone", "createFailed"} =>
                 loc[c].nRes = 1 /\ loc[c].nDer = 1
       /\ pc[c] = "createFailed" =>
            \/ pc'[c] = "createFailed" /\ loc'[c] = loc[c]
            \/ pc'[c] = "idle" /\ loc'[c] = Idle]_vars

\* the backend's createSwap has failed for a creation call
C17_Witness ==
  \E c \in Calls :
    /\ loc[c].op = "create" /\ pc[c] = "createFailed"
    /\ loc[c].nRes = 1 /\ loc[c].nDer = 1 /\ loc[c].nReq = 1
    /\ loc[c].bundle.key_index = loc[c].idx

\* C18: while a swap id has a record, the record's secret bundle does not
\* change: a refresh replaces only the response, a recovery writes an equal
\* bundle; and the bundle is the one derived when the swap was created.
C18_BundleNeverChanges ==
  [][\A s \in SwapIds :
       /\ (swaps[s].exists /\ swaps'[s].exists) =>
            swaps'[s].swap_params = swaps[s].swap_params
       /\ swaps[s].exists =>
            swaps[s].swap_params = [seed |-> server[s].seed, key_index |-> server[s].index]]_vars

\* a record whose response a refresh replaced was overwritten by a recovery
C18_Witness ==
  \E s \in SwapIds :
    /\ swaps[s].exists
    /\ swaps[s].response.status = "serverfunded"
    /\ swaps[s].swap_params.key_index \in hist.recovered

\* the bundle derived when the swap of the call c was created
CreatedBundle(c) == [seed |-> server[loc[c].id].seed, key_index |-> server[loc[c].id].index]

\* the step is one of a claim or refund call c
ClaimStep(c) ==
  /\ pc'[c] # pc[c]
  /\ \/ loc[c].op \in ChainOps /\ pc[c] \in {"lookup", "gate", "chain", "refused"}
     \/ loc'[c].op \in ChainOps /\ pc[c] = "idle"

C20_OnlyExplicitDelete ==
  [][/\ \A s \in SwapIds :
          (swaps[s].exists /\ ~swaps'[s].exists) =>
            \E c \in Calls :
              \/ /\ loc[c].op = "deleteSwap" /\ loc[c].id = s
                 /\ pc[c] = "delete" /\ pc'[c] = "wasmDone"
              \/ /\ loc[c].op = "clearSwapStorage"
                 /\ pc[c] = "clear" /\ pc'[c] = "wasmDone"
     /\ \A c \in Calls :
          (pc[c] = "delete" /\ pc'[c] = "wasmDone") =>
            \A s \in SwapIds \ {loc[c].id} : swaps'[s] = swaps[s]]_vars

\* deleteSwap removed the record of its id and the other swap's record is there
C20_Witness ==
  \E c \in Calls :
    /\ loc[c].op = "deleteSwap" /\ pc[c] = "wasmDone"
    /\ server[loc[c].id].exists
    /\ ~swaps[loc[c].id].exists
    /\ \E s \in SwapIds \ {loc[c].id} : swaps[s].exists

C22_ConsecutiveIndices ==
  /\ \A k \in 1..Len(issued) : issued[k] = k - 1
  /\ \A c \in Calls :
       (pc[c] = "wasmDone" /\ loc[c].op = "derive") =>
         /\ loc[c].bundle.key_index = Len(issued) - 1
         /\ loc[c].bundle.key_index = loc[c].before.keyIndex
         /\ KeyIndexOf(walletRec) = Len(issued)

C22_Witness ==
  \E c \in Calls :
    /\ pc[c] = "wasmDone" /\ loc[c].op = "derive"
    /\ Len(issued) = 2 /\ loc[c].bundle.key_index = 1
    /\ KeyIndexOf(walletRec) = 2

\* the call c is a deriveSwapParamsAtIndex that has returned its bundle
DerivedAt(c) == pc[c] = "wasmDone" /\ loc[c].op = "deriveAt"

Orphan(s) ==
  /\ server[s].exists /\ ~swaps[s].exists
  /\ server[s].seed = MnemonicOf(walletRec)

\* C26: when the process crashed after an index was reserved and before the
\* creation response was stored, the restarted client finds the counter above
\* that index and no record of the swap, and deriveSwapParamsAtIndex at that
\* index returns the bundle the swap was created with, leaving the counter as
\* it was.
C26_OrphanRederived ==
  \A s \in SwapIds :
    Orphan(s) =>
      /\ KeyIndexOf(walletRec) > server[s].index
      /\ \A c \in Calls :
           (DerivedAt(c) /\ loc[c].idx = server[s].index) =>
             /\ loc[c].bundle = [seed |-> server[s].seed, key_index |-> server[s].index]
             /\ KeyIndexOf(walletRec) = loc[c].before.keyIndex

C26_Witness ==
  \E s \in SwapIds, c \in Calls :
    /\ Orphan(s) /\ server[s].index = 0
    /\ KeyIndexOf(walletRec) = 1
    /\ DerivedAt(c) /\ loc[c].idx = 0
    /\ loc[c].bundle = [seed |-> server[s].seed, key_index |-> 0]

\* C29: generateOrGetMnemonic generates a phrase only when none is stored, and
\* otherwise returns the stored one unchanged, also on a new wallet instance
\* over the same storage; importMnemonic(m) leaves m stored, and getMnemonic
\* returns the stored phrase.
C29_MnemonicKept ==
  [][\A c \in Calls :
       /\ (loc'[c].op = "generate" /\ pc[c] # "wasmDone" /\ pc'[c] = "wasmDone") =>
            /\ loc'[c].ret # Null
            /\ loc'[c].ret = MnemonicOf(walletRec')
            /\ loc'[c].found # Null =>
                 (loc'[c].ret = loc'[c].found /\ walletRec' = walletRec)
            /\ loc'[c].found = Null =>
                 (loc'[c].ret \in GeneratedMnemonics /\ MnemonicOf(walletRec) = Null)
       /\ (loc'[c].op = "import" /\ pc[c] # "wasmDone" /\ pc'[c] = "wasmDone") =>
            MnemonicOf(walletRec') = loc[c].arg
       /\ (loc'[c].op = "getMnemonic" /\ pc[c] # "wasmDone" /\ pc'[c] = "wasmDone") =>
            (loc'[c].ret = MnemonicOf(walletRec) /\ walletRec' = walletRec)]_vars

C29_Witness ==
  \E c \in Calls :
    /\ pc[c] = "wasmDone" /\ loc[c].op = "generate"
    /\ loc[c].found = "g1" /\ loc[c].ret = "g1"
    /\ KeyIndexOf(walletRec) = 1

\* the value n a recovery passes to setFloor
FloorArg(c) == loc[c].snapshot.highest_index + 1

\* C23: the write of setFloor(n) leaves the counter at max(current, n): at n
\* when n is above the counter's value, and at the counter's value, unchanged,
\* when n is not above it.
C23_SetFloorIsMax ==
  [][\A c \in Calls :
       (loc[c].op = "recover" /\ pc[c] = "setIdxPut" /\ pc'[c] = "persisted") =>
         /\ FloorArg(c) > KeyIndexOf(walletRec) => KeyIndexOf(walletRec') = FloorArg(c)
         /\ FloorArg(c) <= KeyIndexOf(walletRec) => walletRec' = walletRec
         /\ KeyIndexOf(walletRec') >= KeyIndexOf(walletRec)
         /\ KeyIndexOf(walletRec') >= FloorArg(c)
         /\ KeyIndexOf(walletRec') \in {KeyIndexOf(walletRec), FloorArg(c)}]_vars

\* setFloor(1) has run on a counter that was 2 and left it at 2
C23_Witness ==
  \E c \in Calls :
    /\ loc[c].op = "recover" /\ pc[c] = "persisted"
    /\ FloorArg(c) = 1 /\ loc[c].cur = 2
    /\ KeyIndexOf(walletRec) = 2

\* the entries of the value the WASM call resolved to, as <<field, value>> pairs
BackendEntries(value) ==
  IF value.kind = "map" THEN value.entries
  ELSE {<<f, value.entries[f]>> : f \in DOMAIN value.entries}

\* the direction each creation operation stands for
DirectionOf(fn) == IF fn = "createArkadeToEvmSwap" THEN "btc_to_evm" ELSE "evm_to_btc"

CreationOps == {"createArkadeToEvmSwap", "createEvmToArkadeSwap", "createEvmToLightningSwap"}

\* C27: the direction of a creation response is the one of the operation
\* called (btc_to_evm for createArkadeToEvmSwap, evm_to_btc for
\* createEvmToArkadeSwap and createEvmToLightningSwap), also when the backend
\* response has a direction of its own; every other field of the backend
\* response is returned unchanged, and no field is added.
C27_DirectionByOperation ==
  lastEval.fn \in CreationOps =>
    /\ lastEval.result.direction = DirectionOf(lastEval.fn)
    /\ lastEval.fn = "createArkadeToEvmSwap" => lastEval.result.direction = "btc_to_evm"
    /\ lastEval.fn # "createArkadeToEvmSwap" => lastEval.result.direction = "evm_to_btc"
    /\ \A p \in BackendEntries(lastEval.arg) :
         p[1] # "direction" =>
           (p[1] \in DOMAIN lastEval.result /\ lastEval.result[p[1]] = p[2])
    /\ DOMAIN lastEval.result =
         {p[1] : p \in BackendEntries(lastEval.arg)} \cup {"direction"}

C27_Witness ==
  /\ lastEval.fn = "createArkadeToEvmSwap"
  /\ lastEval.arg.kind = "map"
  /\ <<"direction", "evm_to_btc">> \in lastEval.arg.entries
  /\ lastEval.result.direction = "btc_to_evm"
  /\ lastEval.result.status = "serverfunded"

\* C28: after store(id, d) the row of id holds exactly d (nothing of an
\* earlier record of id is left) and get(id) returns d; get of an id that has
\* no row (never stored, or deleted since) returns null; store and delete on
\* id leave the rows of every other id as they were.
C28_StoreIsUpsert ==
  /\ lastEval.fn = "store" =>
       /\ swaps[lastEval.id].exists
       /\ swaps[lastEval.id].id = lastEval.id
       /\ swaps[lastEval.id].response = lastEval.data.response
       /\ swaps[lastEval.id].swap_params = lastEval.data.swap_params
       /\ \A s \in SwapIds \ {lastEval.id} : swaps[s] = lastEval.before[s]
  /\ lastEval.fn = "get" =>
       /\ swaps[lastEval.id].exists =>
            /\ lastEval.result.exists
            /\ lastEval.result.response = swaps[lastEval.id].response
            /\ lastEval.result.swap_params = swaps[lastEval.id].swap_params
            /\ DOMAIN lastEval.result = {"exists", "response", "swap_params"}
       /\ ~swaps[lastEval.id].exists => lastEval.result = NoSwap
  /\ lastEval.fn = "delete" =>
       /\ ~swaps[lastEval.id].exists
       /\ \A s \in SwapIds \ {lastEval.id} : swaps[s] = lastEval.before[s]

\* a record was stored over an earlier one of the same id that differed in
\* both parts, while the other id had a record
C28_Witness ==
  /\ lastEval.fn = "store"
  /\ lastEval.before[lastEval.id].exists
  /\ lastEval.before[lastEval.id].response # lastEval.data.response
  /\ lastEval.before[lastEval.id].swap_params # lastEval.data.swap_params
  /\ \E s \in SwapIds \ {lastEval.id} : swaps[s].exists

\* C30: a subscribe that finds no current socket leaves a connection attempt
\* behind (a new socket that is connecting, or, when the socket could not be
\* created, a scheduled reconnect); after the unsubscribe that empties the
\* listener set there is no current socket and no reconnect timer; an
\* unsubscribe that leaves a listener behind leaves the current socket, its
\* readyState and the timer as they were.
C30_ConnectOnFirstCloseOnLast ==
  /\ (feed.last.op = "subscribe" /\ feed.last.ws = 0) =>
       \/ feed.ws # 0 /\ feed.sock[feed.ws] = "connecting"
       \/ feed.ws = 0 /\ feed.reconnectTimer
  /\ (feed.last.op = "unsubscribe" /\ feed.listeners = {}) =>
       /\ feed.ws = 0
       /\ ~feed.reconnectTimer
       /\ feed.last.ws # 0 => feed.sock[feed.last.ws] = "closing"
  /\ (feed.last.op = "unsubscribe" /\ feed.listeners # {}) =>
       /\ feed.ws = feed.last.ws
       /\ ReadyStateOf(feed) = feed.last.readyState
       /\ feed.reconnectTimer = feed.last.timer

\* the last listener left while a socket was open: the socket is closing and
\* no longer the current one
C30_Witness ==
  /\ feed.last.op = "unsubscribe" /\ feed.listeners = {}
  /\ feed.last.size = 1
  /\ feed.last.readyState = "open"
  /\ feed.ws = 0 /\ ~feed.reconnectTimer

\* the sockets that are connecting or open
LiveSockets(f) == {i \in Sockets : f.sock[i] \in {"connecting", "open"}}

\* C31: from close(), or the unsubscribe that empties the listener set, until
\* the next subscribe, whatever events of the sockets arrive and in whatever
\* order: no reconnect timer is pending, there is no current socket, and no
\* step creates a WebSocket.
C31_NoReconnectAfterClose ==
  [][feed'.closed =>
       /\ ~feed'.reconnectTimer
       /\ feed'.timers = 0
       /\ feed'.ws = 0
       /\ feed.closed =>
            \A i \in Sockets : feed.sock[i] = "none" => feed'.sock[i] = "none"]_vars

\* close() was called with a listener still subscribed, and the close event of
\* the socket has arrived since: nothing was scheduled
C31_Witness ==
  /\ feed.closed
  /\ feed.last.op = "onclose"
  /\ feed.listeners # {}
  /\ ~feed.reconnectTimer /\ feed.ws = 0

\* the step sets a reconnect timer
TimerSet == feed'.reconnectTimer /\ (~feed.reconnectTimer \/ feed'.last.op = "timer")

\* the wait the backoff rule gives the next reconnect attempt
NextWait(f) ==
  IF f.waited = 0 THEN InitialReconnectDelay ELSE Min(2 * f.waited, MaxReconnectDelay)

\* C32: reconnectDelay stays within 1000..30000; a socket that opens resets it
\* to 1000; the first reconnect timer, and the first after a socket has opened,
\* waits 1000 ms, and every further one waits twice what the timer before it
\* waited, at most 30000 ms.
C32_ExponentialBackoff ==
  [][/\ feed'.reconnectDelay >= InitialReconnectDelay
     /\ feed'.reconnectDelay <= MaxReconnectDelay
     /\ (feed'.last.op = "onopen" /\ feed' # feed) =>
          feed'.reconnectDelay = InitialReconnectDelay
     /\ TimerSet => feed'.timerDelay = NextWait(feed')]_vars

\* C36: at most one WebSocket of the service is connecting or open at any time.
C36_OneLiveSocket == Cardinality(LiveSockets(feed)) <= 1

\* the step is the close event of the socket i
CloseEventOf(i) ==
  feed'.last.op = "onclose" /\ feed.sock[i] # "none" /\ feed'.sock[i] = "none"

\* C37: the close event of a socket that close() has closed, arriving when
\* another socket has become the current one, leaves the reference to the
\* current socket and the reconnect timer as they were.
C37_LateCloseAffectsNothing ==
  [][\A i \in Sockets :
       (CloseEventOf(i) /\ feed.sock[i] = "closing" /\ feed.ws \notin {0, i}) =>
         /\ feed'.ws = feed.ws
         /\ feed'.reconnectTimer = feed.reconnectTimer
         /\ feed'.timers = feed.timers]_vars

\* C38: at most one reconnect timer is pending, and it is the one the field
\* reconnectTimer refers to; a scheduleReconnect that finds a timer pending
\* sets no other; none is pending when close(), or the unsubscribe that
\* empties the listener set, has returned.
C38_OneReconnectTimer ==
  /\ feed.timers <= 1
  /\ feed.reconnectTimer <=> feed.timers = 1
  /\ feed.last.op = "close" => feed.timers = 0
  /\ (feed.last.op = "unsubscribe" /\ feed.listeners = {}) => feed.timers = 0

\* a socket closed while a reconnect timer was pending and the service was to
\* reconnect: still one timer
C38_Witness ==
  /\ feed.last.op = "onclose" /\ feed.last.timer
  /\ ShouldReconnect(feed)
  /\ feed.timers = 1

\* the service has listeners and no current socket
Disconnected == feed.listeners # {} /\ feed.ws = 0

\* C39: while close() is not called from outside, a service with listeners
\* and no current socket always has a reconnect timer pending, and, timers
\* firing in the end, it goes on to a new attempt to create a socket unless
\* its last listener leaves first.
C39_ReconnectsEventually ==
  /\ [](Disconnected => (feed.reconnectTimer /\ feed.timers = 1))
  /\ \A b \in BOOLEAN :
       (Disconnected /\ feed.attempt = b) ~> (feed.listeners = {} \/ feed.attempt # b)

\* the current socket was closed under a listener, and a reconnect is pending
C39_Witness ==
  /\ Disconnected
  /\ feed.last.op = "onclose" /\ feed.last.ws # 0
  /\ feed.reconnectTimer

\* C33: however many initWasm calls are made, one after another or at once,
\* and with whatever wasmPath, one promise is made and init is called at most
\* once; every call settles as that one initialisation did, its failure
\* included.
C33_InitWasmOnce ==
  /\ wasm.inits <= 1
  /\ wasm.created <= 1
  /\ wasm.initPromise = Null <=> wasm.created = 0
  /\ \A c \in Calls :
       /\ wasm.call[c].st \in {"fulfilled", "rejected"} =>
            wasm.call[c].st = wasm.initPromise
       /\ wasm.call[c].st = "awaiting" => wasm.created = 1

\* two calls with different paths were made before the initialisation failed,
\* and both were rejected
C33_Witness ==
  /\ wasm.initPromise = "rejected" /\ wasm.inits = 1
  /\ \A c \in Calls : wasm.call[c].st = "rejected"
  /\ \E c, d \in Calls : wasm.call[c].wasmPath # wasm.call[d].wasmPath

\* C34: the put of setMnemonic leaves the stored key index as it was, and the
\* put of setKeyIndex leaves the stored mnemonic as it was, however the get and
\* put steps of the two calls are interleaved.
C34_FieldsPreserved ==
  [][\A c \in Calls :
       /\ (pc[c] = "setMnPut" /\ pc'[c] # "setMnPut") =>
            KeyIndexOf(walletRec') = KeyIndexOf(walletRec)
       /\ (pc[c] = "setIdxPut" /\ pc'[c] = "persisted") =>
            MnemonicOf(walletRec') = MnemonicOf(walletRec)]_vars

\* C35: after store(swapId, data), whatever fields data carries (a row of
\* getAll() with its own id included), get(swapId) returns data and the row of
\* every other id, that of data's own id among them, is as it was.
C35_StoreWritesUnderSwapId ==
  lastEval.fn = "store" =>
    /\ SwapStoreGet(swaps, lastEval.id) =
         [exists |-> TRUE, response |-> lastEval.data.response,
          swap_params |-> lastEval.data.swap_params]
    /\ \A s \in SwapIds \ {lastEval.id} : swaps[s] = lastEval.before[s]

====
